---- MODULE Spec2Model ----
(***************************************************************************)
(* Model of the duplicate-detection engine of the bookmark manager         *)
(* (background/duplicate-detector.js): URL normalisation, duplicate        *)
(* grouping, quality scoring and keeper recommendation.                    *)
(*                                                                         *)
(* Strings are sequences of one-character strings, so that parsing,        *)
(* lower-casing, prefix stripping and sorting are computed character by    *)
(* character as the JavaScript does.  The alphabet is ASCII letters and    *)
(* the punctuation  # & - . / : = ? _ |  (no digits, no '%', no '+', no    *)
(* white space in URLs: percent-decoding, IPv4 hosts and ports are         *)
(* outside the modelled inputs).                                           *)
(*                                                                         *)
(* Time is counted in whole days; scores are kept as integers equal to     *)
(* 60 times the JavaScript number, which makes every term of the score     *)
(* exact (title/10, description/20, visits/2, days/30, days/60).           *)
(***************************************************************************)
EXTENDS Integers, Sequences, FiniteSets, TLC

Null == "null"

\* ------------------------------------------------------------------------
\* Characters and strings
\* ------------------------------------------------------------------------

UpperChars == <<"A","B","C","D","E","F","G","H","I","J","K","L","M",
                "N","O","P","Q","R","S","T","U","V","W","X","Y","Z">>

LowerChars == <<"a","b","c","d","e","f","g","h","i","j","k","l","m",
                "n","o","p","q","r","s","t","u","v","w","x","y","z">>

\* The modelled characters in UTF-16 code-unit order (the order used by
\* Array.prototype.sort() without a comparator).
CodeOrder == <<" ", "#", "&", "-", ".", "/", ":", "=", "?">> \o UpperChars
             \o <<"_">> \o LowerChars \o <<"|">>

IndexIn(c, seq) == IF \E i \in DOMAIN seq : seq[i] = c
                   THEN CHOOSE i \in DOMAIN seq : seq[i] = c
                   ELSE 0

CharCode(c) == IndexIn(c, CodeOrder)

IsUpper(c) == IndexIn(c, UpperChars) > 0
IsLower(c) == IndexIn(c, LowerChars) > 0
IsAlpha(c) == IsUpper(c) \/ IsLower(c)

\* String.prototype.toLowerCase on one character
LowerChar(c) == IF IsUpper(c) THEN LowerChars[IndexIn(c, UpperChars)] ELSE c
UpperChar(c) == IF IsLower(c) THEN UpperChars[IndexIn(c, LowerChars)] ELSE c

\* String.prototype.toLowerCase
ToLowerCase(s) == [i \in 1..Len(s) |-> LowerChar(s[i])]
ToUpperCase(s) == [i \in 1..Len(s) |-> UpperChar(s[i])]

StartsWith(s, p) == Len(s) >= Len(p) /\ SubSeq(s, 1, Len(p)) = p
EndsWith(s, p)   == Len(s) >= Len(p) /\ SubSeq(s, Len(s) - Len(p) + 1, Len(s)) = p
DropFirst(s, n)  == SubSeq(s, n + 1, Len(s))
DropLast(s, n)   == SubSeq(s, 1, Len(s) - n)

\* Index of the first character of s, from position i on, that is in set
\* cs, or Len(s)+1
RECURSIVE ScanFor(_, _, _)
ScanFor(s, cs, i) ==
  IF i > Len(s) THEN Len(s) + 1
  ELSE IF s[i] \in cs THEN i
  ELSE ScanFor(s, cs, i + 1)

FirstOf(s, cs) == ScanFor(s, cs, 1)

\* s.split(c): the pieces of s between occurrences of character c
RECURSIVE Split(_, _)
Split(s, c) ==
  LET i == FirstOf(s, {c})
  IN IF i > Len(s) THEN <<s>>
     ELSE <<SubSeq(s, 1, i - 1)>> \o Split(DropFirst(s, i), c)

\* parts.join(sep)
RECURSIVE Join(_, _)
Join(parts, sep) ==
  IF Len(parts) = 0 THEN <<>>
  ELSE IF Len(parts) = 1 THEN parts[1]
  ELSE parts[1] \o sep \o Join(Tail(parts), sep)

\* a < b in code-unit order (the default comparison of Array.prototype.sort)
RECURSIVE StrLess(_, _)
StrLess(a, b) ==
  IF Len(b) = 0 THEN FALSE
  ELSE IF Len(a) = 0 THEN TRUE
  ELSE IF a[1] = b[1] THEN StrLess(Tail(a), Tail(b))
  ELSE CharCode(a[1]) < CharCode(b[1])

\* Insert string x into the sorted list l, after the elements not greater
RECURSIVE InsertSorted(_, _)
InsertSorted(x, l) ==
  IF Len(l) = 0 THEN <<x>>
  ELSE IF StrLess(x, l[1]) THEN <<x>> \o l
  ELSE <<l[1]>> \o InsertSorted(x, Tail(l))

\* Array.prototype.sort() of a list of strings (stable, ascending)
RECURSIVE SortStrings(_)
SortStrings(l) ==
  IF Len(l) = 0 THEN <<>>
  ELSE InsertSorted(l[Len(l)], SortStrings(DropLast(l, 1)))

\* Common literals
SHttp    == <<"h","t","t","p">>
SHttps   == <<"h","t","t","p","s">>
SSlashes == <<":","/","/">>
SWww     == <<"w","w","w",".">>
SSlash   == <<"/">>

\* ------------------------------------------------------------------------
\* new URL(url): the WHATWG URL parser without a base URL, restricted to the
\* modelled alphabet (no credentials, no digits hence no port number and no
\* IPv4 host, no percent-encoding, no "file:" scheme).
\* ------------------------------------------------------------------------

SchemeChars == {c \in {CodeOrder[i] : i \in DOMAIN CodeOrder} : IsAlpha(c)}
               \cup {"-", "."}

AllChars == {CodeOrder[i] : i \in DOMAIN CodeOrder}

\* Schemes whose URLs always have a host and a "/"-rooted path
SpecialSchemes == { SHttp, SHttps, <<"f","t","p">>, <<"w","s">>, <<"w","s","s">> }

\* Code points that make the host parser fail
ForbiddenHostChars == {" ", "#", "/", ":", "?", "|"}

ParseFailure == [ok |-> FALSE, hostname |-> <<>>, pathname |-> <<>>,
                 search |-> <<>>, hash |-> <<>>]

\* Path state: "." segments are dropped, ".." removes the previous segment
RECURSIVE PathSegments(_, _)
PathSegments(segs, acc) ==
  IF Len(segs) = 0 THEN acc
  ELSE LET seg  == segs[1]
           last == Len(segs) = 1
           next == IF seg = <<".", ".">>
                   THEN (IF Len(acc) > 0 THEN DropLast(acc, 1) ELSE acc)
                        \o (IF last THEN << <<>> >> ELSE <<>>)
                   ELSE IF seg = <<".">>
                   THEN acc \o (IF last THEN << <<>> >> ELSE <<>>)
                   ELSE acc \o <<seg>>
       IN PathSegments(Tail(segs), next)

\* The serialised path of a list of segments: "/" before each segment
RECURSIVE SerializePath(_)
SerializePath(segs) ==
  IF Len(segs) = 0 THEN <<>>
  ELSE SSlash \o segs[1] \o SerializePath(Tail(segs))

RECURSIVE StripLeadingSlashes(_)
StripLeadingSlashes(s) ==
  IF Len(s) > 0 /\ s[1] = "/" THEN StripLeadingSlashes(Tail(s)) ELSE s

\* Query and fragment of the text that follows the path ("?q#f", "#f", "")
SearchOf(tail) ==
  IF Len(tail) > 0 /\ tail[1] = "?"
  THEN LET e == FirstOf(tail, {"#"})
       IN IF e > 2 THEN SubSeq(tail, 1, e - 1) ELSE <<>>
  ELSE <<>>

HashOf(tail) ==
  LET h == FirstOf(tail, {"#"})
  IN IF h < Len(tail) THEN SubSeq(tail, h, Len(tail)) ELSE <<>>

\* Authority, path, query and fragment of the text after "scheme:" (and after
\* the slashes that introduce the authority)
ParseAuthorityAndPath(r, special) ==
  LET aEnd      == FirstOf(r, {"/", "?", "#"})
      authority == SubSeq(r, 1, aEnd - 1)
      after     == DropFirst(r, aEnd - 1)
      colon     == FirstOf(authority, {":"})
      hostRaw   == SubSeq(authority, 1, colon - 1)
      port      == DropFirst(authority, colon)
      pEnd      == FirstOf(after, {"?", "#"})
      pathRaw   == SubSeq(after, 1, pEnd - 1)
      tail      == DropFirst(after, pEnd - 1)
      segs      == IF Len(pathRaw) = 0
                   THEN (IF special THEN << <<>> >> ELSE <<>>)
                   ELSE PathSegments(Split(Tail(pathRaw), "/"), <<>>)
  IN IF (special /\ Len(hostRaw) = 0)
        \/ (\E i \in 1..Len(hostRaw) : hostRaw[i] \in ForbiddenHostChars)
        \/ Len(port) > 0
     THEN ParseFailure
     ELSE [ok |-> TRUE,
           hostname |-> IF special THEN ToLowerCase(hostRaw) ELSE hostRaw,
           pathname |-> SerializePath(segs),
           search   |-> SearchOf(tail),
           hash     |-> HashOf(tail)]

\* Path, query and fragment of a non-special URL without authority
ParseNoAuthority(r) ==
  LET pEnd    == FirstOf(r, {"?", "#"})
      pathRaw == SubSeq(r, 1, pEnd - 1)
      tail    == DropFirst(r, pEnd - 1)
  IN [ok |-> TRUE,
      hostname |-> <<>>,
      pathname |-> IF Len(pathRaw) > 0 /\ pathRaw[1] = "/"
                   THEN SerializePath(PathSegments(Split(Tail(pathRaw), "/"), <<>>))
                   ELSE pathRaw,
      search   |-> SearchOf(tail),
      hash     |-> HashOf(tail)]

\* new URL(s): [ok |-> FALSE ...] stands for the TypeError it throws
ParseUrl(s) ==
  LET k == FirstOf(s, AllChars \ SchemeChars)
  IN IF Len(s) = 0 \/ ~IsAlpha(s[1]) \/ k > Len(s) \/ s[k] # ":"
     THEN ParseFailure
     ELSE LET scheme == ToLowerCase(SubSeq(s, 1, k - 1))
              rest   == DropFirst(s, k)
          IN IF scheme \in SpecialSchemes
             THEN ParseAuthorityAndPath(StripLeadingSlashes(rest), TRUE)
             ELSE IF StartsWith(rest, <<"/", "/">>)
             THEN ParseAuthorityAndPath(DropFirst(rest, 2), FALSE)
             ELSE ParseNoAuthority(rest)

\* new URLSearchParams(search): the list of <<key, value>> pairs in order
\* of appearance (empty pieces between "&" are skipped; a piece without "="
\* has the empty value)
ParamOf(piece) ==
  LET e == FirstOf(piece, {"="})
  IN <<SubSeq(piece, 1, e - 1), DropFirst(piece, e)>>

RECURSIVE ParamsOf(_)
ParamsOf(pieces) ==
  IF Len(pieces) = 0 THEN <<>>
  ELSE (IF Len(pieces[1]) = 0 THEN <<>> ELSE <<ParamOf(pieces[1])>>)
       \o ParamsOf(Tail(pieces))

URLSearchParams(search) ==
  LET q == IF Len(search) > 0 /\ search[1] = "?" THEN Tail(search) ELSE search
  IN ParamsOf(Split(q, "&"))

\* ------------------------------------------------------------------------
\* DuplicateDetector.normalizeUrl
\* ------------------------------------------------------------------------

TrackingParams ==
  << <<"u","t","m","_","s","o","u","r","c","e">>,
     <<"u","t","m","_","m","e","d","i","u","m">>,
     <<"u","t","m","_","c","a","m","p","a","i","g","n">>,
     <<"u","t","m","_","t","e","r","m">>,
     <<"u","t","m","_","c","o","n","t","e","n","t">>,
     <<"f","b","c","l","i","d">>,
     <<"g","c","l","i","d">> >>

\* Variant: the parameter name is compared without lower-casing it
IsTrackingExact(key) ==
  \E i \in DOMAIN TrackingParams : TrackingParams[i] = key

\* trackingParams.includes(key.toLowerCase())
IsTracking(key) ==
  \E i \in DOMAIN TrackingParams : TrackingParams[i] = ToLowerCase(key)

\* Variant: the "www." prefix is kept
StripWwwNone(s) == s

\* s.replace(/^www\./, '')
StripWww(s) == IF StartsWith(s, SWww) THEN DropFirst(s, 4) ELSE s

\* s.replace(/^https?:\/\//, '')
StripScheme(s) ==
  IF StartsWith(s, SHttps \o SSlashes) THEN DropFirst(s, 8)
  ELSE IF StartsWith(s, SHttp \o SSlashes) THEN DropFirst(s, 7)
  ELSE s

\* s.replace(/\/$/, '')
StripTrailingSlash(s) == IF EndsWith(s, SSlash) THEN DropLast(s, 1) ELSE s

\* The path without its trailing slash, unless it is the root path
NormalizePath(path) ==
  IF Len(path) > 1 /\ EndsWith(path, SSlash) THEN DropLast(path, 1) ELSE path

\* The "key=value" strings of the parameters that are not tracking ones
RECURSIVE CleanParamsOf(_)
CleanParamsOf(params) ==
  IF Len(params) = 0 THEN <<>>
  ELSE (IF IsTracking(params[1][1]) THEN <<>>
        ELSE << params[1][1] \o <<"=">> \o params[1][2] >>)
       \o CleanParamsOf(Tail(params))

CleanParams(search) == CleanParamsOf(URLSearchParams(search))

\* The query part of the key: "?" and the sorted pairs, or nothing
QueryPart(search) ==
  LET cleanParams == CleanParams(search)
  IN IF Len(cleanParams) > 0
     THEN <<"?">> \o Join(SortStrings(cleanParams), <<"&">>)
     ELSE <<>>

\* The body of the try block, for a URL that parsed
NormalizeParsed(urlObj) ==
  StripWww(ToLowerCase(urlObj.hostname))
  \o ToLowerCase(NormalizePath(urlObj.pathname))
  \o ToLowerCase(urlObj.hash)
  \o QueryPart(urlObj.search)

\* The catch block, for a URL that did not parse
FallbackNormalize(url) ==
  StripTrailingSlash(StripWww(StripScheme(ToLowerCase(url))))

\* The outcome that stands for an exception leaving the function
Thrown == <<"TypeError">>

\* Variant: no catch block around new URL(url)
NormalizeUrlNoCatch(url) ==
  LET urlObj == ParseUrl(url)
  IN IF urlObj.ok THEN NormalizeParsed(urlObj) ELSE Thrown

\* try { new URL(url) ... } catch { fallback }: the TypeError of new URL is
\* caught, and nothing else in either block throws for a string
NormalizeUrl(url) ==
  LET urlObj == ParseUrl(url)
  IN IF urlObj.ok THEN NormalizeParsed(urlObj) ELSE FallbackNormalize(url)

\* ------------------------------------------------------------------------
\* DuplicateDetector.scoreBookmarks
\*
\* A bookmark is a record; an absent (undefined) title, description or url
\* is the empty string, absent tags are the empty list, an absent meta is
\* the empty map, an absent date is NoDate, an absent category is Null and
\* an absent visitCount is 0: the code treats each pair alike.
\* Dates and the clock are in days; Score60 is 60 times the score.
\* ------------------------------------------------------------------------

NoDate == -1

Min(a, b) == IF a < b THEN a ELSE b
Max(a, b) == IF a > b THEN a ELSE b

\* s.trim().length > 0
NonBlank(s) == \E i \in DOMAIN s : s[i] # " "

\* Title quality: 10, and length/10 up to 5
TitleScore(b) ==
  IF Len(b.title) > 0 /\ NonBlank(b.title)
  THEN 600 + Min(6 * Len(b.title), 300) ELSE 0

\* Description quality: 8, and length/20 up to 4
DescriptionScore(b) ==
  IF Len(b.description) > 0 /\ NonBlank(b.description)
  THEN 480 + Min(3 * Len(b.description), 240) ELSE 0

\* Metadata completeness: 2 for each key
MetaScore(b) == 120 * Cardinality(DOMAIN b.meta)

\* Visit information: 20 - daysSinceVisit/30, not below 0
VisitedScore(b, now) ==
  IF b.dateVisited # NoDate
  THEN Max(0, 1200 - 2 * (now - b.dateVisited)) ELSE 0

\* Visit count: 0.5 for each visit
VisitCountScore(b) == 30 * b.visitCount

\* Variant: the sign of the tag term slipped
TagScoreNegated(b) == IF Len(b.tags) > 0 THEN 0 - 180 * Len(b.tags) ELSE 0

\* Tag richness: 3 for each tag
TagScore(b) == IF Len(b.tags) > 0 THEN 180 * Len(b.tags) ELSE 0

\* Category assignment: 5
CategoryScore(b) == IF b.category # Null THEN 300 ELSE 0

\* Variant: an absent dateAdded is not skipped
AddedScoreUnguarded(b, now) == Max(0, 900 - (now - b.dateAdded))

\* Date added: 15 - daysSinceAdded/60, not below 0
AddedScore(b, now) ==
  IF b.dateAdded # NoDate
  THEN Max(0, 900 - (now - b.dateAdded)) ELSE 0

\* URL quality: 3 for https
HttpsScore(b) == IF StartsWith(b.url, SHttps \o SSlashes) THEN 180 ELSE 0

\* Variant: the penalty of a broken link is 5
BrokenPenaltySmall(b) == IF b.isBroken THEN 300 ELSE 0

\* Broken links: - 50
BrokenPenalty(b) == IF b.isBroken THEN 3000 ELSE 0

\* The sum before Math.max(0, score)
RawScore60(b, now) ==
  TitleScore(b) + DescriptionScore(b) + MetaScore(b) + VisitedScore(b, now)
  + VisitCountScore(b) + TagScore(b) + CategoryScore(b) + AddedScore(b, now)
  + HttpsScore(b) - BrokenPenalty(b)

Score60(b, now) == Max(0, RawScore60(b, now))

\* scoreBookmarks(bookmarks): one {bookmark, score} per bookmark, in the
\* order of the input
ScoreBookmarks(bookmarks, now) ==
  [i \in 1..Len(bookmarks) |->
     [bookmark |-> bookmarks[i], score |-> Score60(bookmarks[i], now)]]

\* ------------------------------------------------------------------------
\* DuplicateDetector.recommendAction
\* ------------------------------------------------------------------------

\* Insert x into a list sorted by descending score, after the elements
\* whose score is not lower (Array.prototype.sort is stable)
RECURSIVE InsertByScore(_, _)
InsertByScore(x, l) ==
  IF Len(l) = 0 THEN <<x>>
  ELSE IF x.score > l[1].score THEN <<x>> \o l
  ELSE <<l[1]>> \o InsertByScore(x, Tail(l))

\* scored.sort((a, b) => b.score - a.score)
RECURSIVE SortByScore(_)
SortByScore(scored) ==
  IF Len(scored) = 0 THEN <<>>
  ELSE InsertByScore(scored[Len(scored)], SortByScore(DropLast(scored, 1)))

\* Variant: the scored list is used without sorting it
KeepOfUnsorted(bookmarks, now) == ScoreBookmarks(bookmarks, now)[1].bookmark.id

\* The id of the best-scored bookmark (bookmarks is not empty)
KeepOf(bookmarks, now) ==
  SortByScore(ScoreBookmarks(bookmarks, now))[1].bookmark.id

\* Variant: only the first bookmark of the group is looked at
DetermineActionFirstOnly(bookmarks) ==
  LET b == bookmarks[1]
  IN IF Len(b.title) > 0 /\ Len(b.description) > 0 /\ Len(b.tags) > 0
     THEN "merge_metadata"
     ELSE IF Len(b.title) > 20 THEN "keep_most_descriptive"
     ELSE IF b.dateVisited # NoDate THEN "keep_most_recent"
     ELSE "keep_first"

\* determineAction(bookmarks): a title, a description and a tag on some one
\* bookmark; else a title of more than 20 characters; else a visit date
DetermineAction(bookmarks) ==
  LET hasCompleteMetadata ==
        \E i \in DOMAIN bookmarks :
           /\ Len(bookmarks[i].title) > 0
           /\ Len(bookmarks[i].description) > 0
           /\ Len(bookmarks[i].tags) > 0
  IN IF hasCompleteMetadata THEN "merge_metadata"
     ELSE IF \E i \in DOMAIN bookmarks : Len(bookmarks[i].title) > 20
     THEN "keep_most_descriptive"
     ELSE IF \E i \in DOMAIN bookmarks : bookmarks[i].dateVisited # NoDate
     THEN "keep_most_recent"
     ELSE "keep_first"

\* reasons.join(', ')
RECURSIVE JoinText(_, _)
JoinText(parts, sep) ==
  IF Len(parts) = 0 THEN ""
  ELSE IF Len(parts) = 1 THEN parts[1]
  ELSE parts[1] \o sep \o JoinText(Tail(parts), sep)

\* The reasons that the fields of one bookmark give, joined
ReasonsOf(b, now) ==
  LET reasons ==
        (IF Len(b.title) > 20 THEN <<"Most descriptive title">> ELSE <<>>)
        \o (IF Len(b.description) > 0 THEN <<"Has description">> ELSE <<>>)
        \o (IF Len(b.tags) > 0 THEN <<"Most tagged">> ELSE <<>>)
        \o (IF b.dateVisited # NoDate /\ now - b.dateVisited < 30
            THEN <<"Recently visited">> ELSE <<>>)
        \o (IF b.category # Null THEN <<"Categorized">> ELSE <<>>)
  IN IF Len(reasons) > 0 THEN JoinText(reasons, ", ")
     ELSE "Highest overall quality"

\* getActionReason(bookmarks): best is the first entry of the list that
\* scoreBookmarks returns, which is in the order of the input
GetActionReason(bookmarks, now) ==
  LET scores == ScoreBookmarks(bookmarks, now)
      best   == scores[1]
  IN ReasonsOf(best.bookmark, now)

\* bookmarks.map(b => b.title).filter(title => title && title.trim().length > 0)
RECURSIVE NonBlankTitles(_)
NonBlankTitles(bookmarks) ==
  IF Len(bookmarks) = 0 THEN <<>>
  ELSE (IF Len(bookmarks[1].title) > 0 /\ NonBlank(bookmarks[1].title)
        THEN <<bookmarks[1].title>> ELSE <<>>)
       \o NonBlankTitles(Tail(bookmarks))

RECURSIVE NonBlankDescriptions(_)
NonBlankDescriptions(bookmarks) ==
  IF Len(bookmarks) = 0 THEN <<>>
  ELSE (IF Len(bookmarks[1].description) > 0 /\ NonBlank(bookmarks[1].description)
        THEN <<bookmarks[1].description>> ELSE <<>>)
       \o NonBlankDescriptions(Tail(bookmarks))

\* Insert x into a list sorted by descending length, after the elements
\* that are not shorter (the sort is stable)
RECURSIVE InsertByLength(_, _)
InsertByLength(x, l) ==
  IF Len(l) = 0 THEN <<x>>
  ELSE IF Len(x) > Len(l[1]) THEN <<x>> \o l
  ELSE <<l[1]>> \o InsertByLength(x, Tail(l))

\* titles.sort((a, b) => b.length - a.length)
RECURSIVE SortByLength(_)
SortByLength(titles) ==
  IF Len(titles) = 0 THEN <<>>
  ELSE InsertByLength(titles[Len(titles)], SortByLength(DropLast(titles, 1)))

\* Variant: among the longest titles the last one is taken
MergeTitlesLastLongest(bookmarks) ==
  LET titles == NonBlankTitles(bookmarks)
      sorted == SortByLength(titles)
      most   == {i \in DOMAIN sorted : Len(sorted[i]) = Len(sorted[1])}
  IN IF Len(titles) = 0 THEN <<>>
     ELSE sorted[CHOOSE i \in most : \A j \in most : j <= i]

\* mergeTitles(bookmarks): the longest title that is not blank, or ''
MergeTitles(bookmarks) ==
  LET titles == NonBlankTitles(bookmarks)
  IN IF Len(titles) = 0 THEN <<>>
     ELSE SortByLength(titles)[1]

\* [...new Set(descriptions)]: the first occurrence of each, in order
RECURSIVE Unique(_)
Unique(l) ==
  IF Len(l) = 0 THEN <<>>
  ELSE LET rest == Unique(DropLast(l, 1))
       IN IF \E i \in DOMAIN rest : rest[i] = l[Len(l)]
          THEN rest ELSE rest \o <<l[Len(l)]>>

\* mergeDescriptions(bookmarks): the distinct descriptions that are not
\* blank, joined with ' | '
MergeDescriptions(bookmarks) ==
  LET descriptions == NonBlankDescriptions(bookmarks)
  IN IF Len(descriptions) = 0 THEN <<>>
     ELSE Join(Unique(descriptions), <<" ", "|", " ">>)

\* Every tag of every bookmark, in the order the two forEach loops visit
RECURSIVE TagsInOrder(_)
TagsInOrder(bookmarks) ==
  IF Len(bookmarks) = 0 THEN <<>>
  ELSE bookmarks[1].tags \o TagsInOrder(Tail(bookmarks))

\* Variant: allTags.set without the has() test, so the last tag of an id wins
RECURSIVE SetAllTags(_, _)
SetAllTags(allTags, tags) ==
  IF Len(tags) = 0 THEN allTags
  ELSE LET tag == tags[1]
           next == IF \E i \in DOMAIN allTags : allTags[i].id = tag.id
                   THEN [i \in DOMAIN allTags |->
                           IF allTags[i].id = tag.id THEN tag ELSE allTags[i]]
                   ELSE allTags \o <<tag>>
       IN SetAllTags(next, Tail(tags))

MergeTagsLastWins(bookmarks) == SetAllTags(<<>>, TagsInOrder(bookmarks))

\* The Map allTags after the loops, as the list of its values in insertion
\* order: a tag is set only when its id is not in the Map yet
RECURSIVE AddNewTags(_, _)
AddNewTags(allTags, tags) ==
  IF Len(tags) = 0 THEN allTags
  ELSE LET tag == tags[1]
           next == IF \E i \in DOMAIN allTags : allTags[i].id = tag.id
                   THEN allTags
                   ELSE allTags \o <<tag>>
       IN AddNewTags(next, Tail(tags))

\* mergeTags(bookmarks)
MergeTags(bookmarks) == AddNewTags(<<>>, TagsInOrder(bookmarks))

\* Object.assign(target, source) and { ...target, ...source }
ObjectAssign(target, source) ==
  [k \in DOMAIN target \cup DOMAIN source |->
     IF k \in DOMAIN source THEN source[k] ELSE target[k]]

\* The metas of the bookmarks assigned one after the other to {}
RECURSIVE AssignMetas(_)
AssignMetas(bookmarks) ==
  IF Len(bookmarks) = 0 THEN <<>>
  ELSE ObjectAssign(AssignMetas(DropLast(bookmarks, 1)),
                    bookmarks[Len(bookmarks)].meta)

\* bookmarks.reduce((sum, b) => sum + (b.visitCount || 0), 0)
RECURSIVE TotalVisits(_)
TotalVisits(bookmarks) ==
  IF Len(bookmarks) = 0 THEN 0
  ELSE bookmarks[1].visitCount + TotalVisits(Tail(bookmarks))

\* The dates of visit that are set, the most recent first
RECURSIVE InsertByDate(_, _)
InsertByDate(x, l) ==
  IF Len(l) = 0 THEN <<x>>
  ELSE IF x > l[1] THEN <<x>> \o l
  ELSE <<l[1]>> \o InsertByDate(x, Tail(l))

RECURSIVE VisitsOf(_)
VisitsOf(bookmarks) ==
  IF Len(bookmarks) = 0 THEN <<>>
  ELSE LET rest == VisitsOf(DropLast(bookmarks, 1))
           date == bookmarks[Len(bookmarks)].dateVisited
       IN IF date # NoDate THEN InsertByDate(date, rest) ELSE rest

\* Variant: a key that is set already is not overwritten by a later meta
RECURSIVE AssignMetasKeepFirst(_)
AssignMetasKeepFirst(bookmarks) ==
  IF Len(bookmarks) = 0 THEN <<>>
  ELSE ObjectAssign(bookmarks[Len(bookmarks)].meta,
                    AssignMetasKeepFirst(DropLast(bookmarks, 1)))

MergeMetadataKeepFirst(bookmarks) ==
  LET merged == ObjectAssign(AssignMetasKeepFirst(bookmarks),
                             [totalVisits |-> TotalVisits(bookmarks)])
      visits == VisitsOf(bookmarks)
  IN IF Len(visits) > 0
     THEN ObjectAssign(merged, [lastVisited |-> visits[1]])
     ELSE merged

\* mergeMetadata(bookmarks)
MergeMetadata(bookmarks) ==
  LET merged == ObjectAssign(AssignMetas(bookmarks),
                             [totalVisits |-> TotalVisits(bookmarks)])
      visits == VisitsOf(bookmarks)
  IN IF Len(visits) > 0
     THEN ObjectAssign(merged, [lastVisited |-> visits[1]])
     ELSE merged

\* recommendAction(bookmarks), at time now
RecommendAction(bookmarks, now) ==
  [keep   |-> KeepOf(bookmarks, now),
   action |-> DetermineAction(bookmarks),
   reason |-> GetActionReason(bookmarks, now),
   merge  |-> [title       |-> MergeTitles(bookmarks),
               description |-> MergeDescriptions(bookmarks),
               tags        |-> MergeTags(bookmarks),
               metadata    |-> MergeMetadata(bookmarks)]]

\* ------------------------------------------------------------------------
\* DuplicateDetector.groupDuplicates, calculateSeverity, findAll
\* ------------------------------------------------------------------------

IsAlnum(c) == IsAlpha(c)   \* the alphabet has no digits

\* `dup_${normalizedUrl.replace(/[^a-zA-Z0-9]/g, '_')}`
GroupId(normalizedUrl) ==
  <<"d","u","p","_">>
  \o [i \in 1..Len(normalizedUrl) |->
        IF IsAlnum(normalizedUrl[i]) THEN normalizedUrl[i] ELSE "_"]

\* One step of the forEach: the bookmark joins the group of its normalized
\* URL, created at the end of the map when new; a bookmark without url is
\* skipped
GroupInto(urlGroups, bookmark) ==
  IF Len(bookmark.url) = 0 THEN urlGroups
  ELSE LET normalizedUrl == NormalizeUrl(bookmark.url)
       IN IF \E i \in DOMAIN urlGroups : urlGroups[i].normalizedUrl = normalizedUrl
          THEN LET i == CHOOSE i \in DOMAIN urlGroups :
                          urlGroups[i].normalizedUrl = normalizedUrl
               IN [urlGroups EXCEPT ![i].bookmarks = @ \o <<bookmark>>]
          ELSE urlGroups \o << [id |-> GroupId(normalizedUrl),
                                normalizedUrl |-> normalizedUrl,
                                bookmarks |-> <<bookmark>>] >>

\* The Map after the forEach, as the list of its values in insertion order
RECURSIVE UrlGroups(_)
UrlGroups(bookmarks) ==
  IF Len(bookmarks) = 0 THEN <<>>
  ELSE GroupInto(UrlGroups(DropLast(bookmarks, 1)), bookmarks[Len(bookmarks)])

MoreThanOne(group) == Len(group.bookmarks) > 1

\* Variant: the thresholds are taken strictly
CalculateSeverityStrict(count) ==
  IF count > 5 THEN "critical"
  ELSE IF count > 3 THEN "high"
  ELSE "medium"

\* Variant: groups of one bookmark are returned too
GroupDuplicatesAll(bookmarks) == UrlGroups(bookmarks)

\* Only the groups with more than one bookmark
GroupDuplicates(bookmarks) == SelectSeq(UrlGroups(bookmarks), MoreThanOne)

CalculateSeverity(count) ==
  IF count >= 5 THEN "critical"
  ELSE IF count >= 3 THEN "high"
  ELSE "medium"

\* What findAll adds to a group: its count, recommended action and severity
WithAdvice(group, t) ==
  [id |-> group.id,
   url |-> group.normalizedUrl,
   bookmarks |-> group.bookmarks,
   count |-> Len(group.bookmarks),
   recommendedAction |-> RecommendAction(group.bookmarks, t),
   severity |-> CalculateSeverity(Len(group.bookmarks))]

\* for (const group of duplicateGroups) { ... }
AllWithAdvice(duplicateGroups, t) ==
  [g \in 1..Len(duplicateGroups) |-> WithAdvice(duplicateGroups[g], t)]

\* findAll() over the bookmarks that getAllBookmarks returned
FindAllOf(allBookmarks, t) == AllWithAdvice(GroupDuplicates(allBookmarks), t)

\* ------------------------------------------------------------------------
\* The bookmark service and the store behind it (js/services/
\* bookmark-service.js, js/database/storage.js)
\*
\* The stored bookmarks are kept as the list that getAllBookmarks() returns:
\* sorted by descending dateModified.  saveBookmark stamps dateModified with
\* the time of the call, so a saved bookmark comes first in the list (two
\* saves are taken to fall in different milliseconds).
\* ------------------------------------------------------------------------

\* urlObj.protocol of a string that new URL() accepts
ProtocolOf(s) ==
  ToLowerCase(SubSeq(s, 1, FirstOf(s, AllChars \ SchemeChars) - 1)) \o <<":">>

\* validateUrl(url).isValid (no modelled URL is longer than 2048)
ValidateUrl(url) ==
  /\ ParseUrl(url).ok
  /\ ProtocolOf(url) \in { SHttp \o <<":">>, SHttps \o <<":">> }

\* validateBookmark(bookmark).isValid (no modelled title is longer than 255)
ValidateBookmark(bookmark) ==
  /\ Len(bookmark.title) > 0 /\ NonBlank(bookmark.title)
  /\ Len(bookmark.url) > 0
  /\ ValidateUrl(bookmark.url)

\* The place of the bookmark with the given id in the list, or 0
PlaceOf(bookmarks, id) ==
  IF \E i \in DOMAIN bookmarks : bookmarks[i].id = id
  THEN CHOOSE i \in DOMAIN bookmarks : bookmarks[i].id = id
  ELSE 0

\* getBookmark(id) is not null
Exists(bookmarks, id) == PlaceOf(bookmarks, id) > 0

\* saveBookmark(bookmark): store.put under the key bookmark.id, with
\* dateModified set to the time of the call
SaveBookmark(bookmarks, bookmark) ==
  <<bookmark>> \o SelectSeq(bookmarks, LAMBDA b : b.id # bookmark.id)

\* updateBookmark(id, updates): ok is FALSE when it throws ('Bookmark not
\* found', or 'Invalid bookmark' for the bookmark with the updates applied)
UpdateBookmark(bookmarks, id, updates) ==
  IF ~Exists(bookmarks, id) THEN [ok |-> FALSE, bookmarks |-> bookmarks]
  ELSE LET existingBookmark == bookmarks[PlaceOf(bookmarks, id)]
           updatedBookmark  == [ObjectAssign(existingBookmark, updates)
                                  EXCEPT !.id = id]
       IN IF ~ValidateBookmark(updatedBookmark)
          THEN [ok |-> FALSE, bookmarks |-> bookmarks]
          ELSE [ok |-> TRUE, bookmarks |-> SaveBookmark(bookmarks, updatedBookmark)]

\* A run of awaited updateBookmark calls: each call is made on the store the
\* calls before it left; the first call that throws ends the run, and the
\* calls after it are not made
NoCalls(bookmarks) == [ok |-> TRUE, bookmarks |-> bookmarks, made |-> <<>>]

RECURSIVE UpdateAll(_, _)
UpdateAll(bookmarks, calls) ==
  IF Len(calls) = 0 THEN NoCalls(bookmarks)
  ELSE LET first == UpdateAll(bookmarks, DropLast(calls, 1))
           call  == calls[Len(calls)]
       IN IF ~first.ok THEN first
          ELSE LET r == UpdateBookmark(first.bookmarks, call.id, call.updates)
               IN [ok |-> r.ok, bookmarks |-> r.bookmarks,
                   made |-> first.made \o <<[id |-> call.id,
                                             updates |-> call.updates,
                                             ok |-> r.ok]>>]

\* ------------------------------------------------------------------------
\* DuplicateDetector.autoResolve, resolveManually, cleanup
\* ------------------------------------------------------------------------

\* The bookmark of the group with the keep id
KeeperOf(group, keep) ==
  group.bookmarks[CHOOSE i \in DOMAIN group.bookmarks : group.bookmarks[i].id = keep]

\* Variant: the id of the bookmark is not compared with that of the keeper
RECURSIVE MarkDuplicatesAll(_, _)
MarkDuplicatesAll(bookmarks, keeperId) ==
  IF Len(bookmarks) = 0 THEN <<>>
  ELSE <<[id |-> bookmarks[1].id,
          updates |-> [isDuplicate |-> TRUE, duplicateOf |-> keeperId]]>>
       \o MarkDuplicatesAll(Tail(bookmarks), keeperId)

\* { isDuplicate: true, duplicateOf: keeper.id } for every bookmark of the
\* list but the keeper
RECURSIVE MarkDuplicates(_, _)
MarkDuplicates(bookmarks, keeperId) ==
  IF Len(bookmarks) = 0 THEN <<>>
  ELSE (IF bookmarks[1].id # keeperId
        THEN <<[id |-> bookmarks[1].id,
                updates |-> [isDuplicate |-> TRUE, duplicateOf |-> keeperId]]>>
        ELSE <<>>)
       \o MarkDuplicates(Tail(bookmarks), keeperId)

\* The ids of the bookmarks of the list but the one given
RECURSIVE IdsBut(_, _)
IdsBut(bookmarks, id) ==
  IF Len(bookmarks) = 0 THEN <<>>
  ELSE (IF bookmarks[1].id # id THEN <<bookmarks[1].id>> ELSE <<>>)
       \o IdsBut(Tail(bookmarks), id)

\* a || b on titles, descriptions and tag lists
OrElse(a, b) == IF Len(a) > 0 THEN a ELSE b

\* The updateBookmark calls autoResolve makes for one group: the merged data
\* to the keeper, then the mark to each other bookmark
AutoResolveCalls(group, mergeMetadata) ==
  LET keep   == group.recommendedAction.keep
      action == group.recommendedAction.action
      merge  == group.recommendedAction.merge
      keeper == KeeperOf(group, keep)
  IN (IF mergeMetadata /\ action = "merge_metadata"
      THEN <<[id |-> keeper.id,
              updates |-> [title       |-> OrElse(merge.title, keeper.title),
                           description |-> OrElse(merge.description, keeper.description),
                           tags        |-> merge.tags,
                           meta        |-> ObjectAssign(keeper.meta, merge.metadata)]]>>
      ELSE <<>>)
     \o MarkDuplicates(group.bookmarks, keeper.id)

RECURSIVE AutoResolveAllCalls(_, _)
AutoResolveAllCalls(duplicateGroups, mergeMetadata) ==
  IF Len(duplicateGroups) = 0 THEN <<>>
  ELSE AutoResolveCalls(duplicateGroups[1], mergeMetadata)
       \o AutoResolveAllCalls(Tail(duplicateGroups), mergeMetadata)

AutoResolveResults(duplicateGroups) ==
  [g \in DOMAIN duplicateGroups |->
     [group   |-> duplicateGroups[g].id,
      kept    |-> duplicateGroups[g].recommendedAction.keep,
      removed |-> IdsBut(duplicateGroups[g].bookmarks,
                         duplicateGroups[g].recommendedAction.keep),
      action  |-> duplicateGroups[g].recommendedAction.action]]

\* autoResolve(options) from the groups that its findAll() returned: every
\* group has at least 2 bookmarks and its keeper among them, so no group is
\* skipped; returned is FALSE when an updateBookmark call throws, which ends
\* autoResolve
AutoResolve(bookmarks, duplicateGroups, mergeMetadata) ==
  LET run == UpdateAll(bookmarks, AutoResolveAllCalls(duplicateGroups, mergeMetadata))
  IN [bookmarks |-> run.bookmarks, made |-> run.made,
      returned |-> run.ok,
      value |-> IF run.ok THEN AutoResolveResults(duplicateGroups) ELSE <<>>]

\* The data of the keeper, bettered by the duplicates one after the other
RECURSIVE MergeIfBetter(_, _)
MergeIfBetter(allData, duplicates) ==
  IF Len(duplicates) = 0 THEN allData
  ELSE LET duplicate == duplicates[1]
           next ==
             [allData EXCEPT
                !.title = IF Len(duplicate.title) > 0
                             /\ Len(duplicate.title) > Len(allData.title)
                          THEN duplicate.title ELSE @,
                !.description = IF Len(duplicate.description) > 0
                                   /\ Len(allData.description) = 0
                                THEN duplicate.description ELSE @,
                !.tags = IF Len(duplicate.tags) > Len(allData.tags)
                         THEN duplicate.tags ELSE @]
       IN MergeIfBetter(next, Tail(duplicates))

\* The place in the list of the first group with the given id, or 0
GroupPlace(duplicateGroups, groupId) ==
  IF \E g \in DOMAIN duplicateGroups : duplicateGroups[g].id = groupId
  THEN CHOOSE g \in DOMAIN duplicateGroups :
         /\ duplicateGroups[g].id = groupId
         /\ \A h \in 1..(g - 1) : duplicateGroups[h].id # groupId
  ELSE 0

\* What resolveManually throws itself
GroupNotFound == "Duplicate group not found"
KeepNotFound  == "Bookmark to keep not found"

\* A resolveManually that looks for the keeper after it marked the others
ResolveManuallyLateCheck(bookmarks, duplicateGroups, groupId, keepBookmarkId, action) ==
  LET g == GroupPlace(duplicateGroups, groupId)
  IN IF g = 0
     THEN [bookmarks |-> bookmarks, made |-> <<>>,
           returned |-> FALSE, value |-> <<>>, error |-> GroupNotFound]
     ELSE LET duplicates == SelectSeq(duplicateGroups[g].bookmarks,
                                      LAMBDA b : b.id # keepBookmarkId)
              run        == UpdateAll(bookmarks,
                                      MarkDuplicates(duplicates, keepBookmarkId))
          IN IF ~Exists(duplicateGroups[g].bookmarks, keepBookmarkId)
             THEN [bookmarks |-> run.bookmarks, made |-> run.made,
                   returned |-> FALSE, value |-> <<>>, error |-> KeepNotFound]
             ELSE [bookmarks |-> run.bookmarks, made |-> run.made,
                   returned |-> run.ok,
                   value |-> IF run.ok
                             THEN [kept |-> keepBookmarkId,
                                   removed |-> IdsBut(duplicates, keepBookmarkId),
                                   action |-> action]
                             ELSE <<>>,
                   error |-> ""]

\* resolveManually(groupId, keepBookmarkId, action) from the groups that its
\* findAll() returned; returned is FALSE when it throws ('Duplicate group
\* not found', 'Bookmark to keep not found') or an updateBookmark call
\* does; error is the message of what it throws itself
ResolveManually(bookmarks, duplicateGroups, groupId, keepBookmarkId, action) ==
  LET g == GroupPlace(duplicateGroups, groupId)
  IN IF g = 0
     THEN [bookmarks |-> bookmarks, made |-> <<>>,
           returned |-> FALSE, value |-> <<>>, error |-> GroupNotFound]
     ELSE IF ~Exists(duplicateGroups[g].bookmarks, keepBookmarkId)
     THEN [bookmarks |-> bookmarks, made |-> <<>>,
           returned |-> FALSE, value |-> <<>>, error |-> KeepNotFound]
     ELSE LET group      == duplicateGroups[g]
              keeper     == KeeperOf(group, keepBookmarkId)
              duplicates == SelectSeq(group.bookmarks,
                                      LAMBDA b : b.id # keepBookmarkId)
              allData    == MergeIfBetter([title |-> keeper.title,
                                           description |-> keeper.description,
                                           tags |-> keeper.tags,
                                           meta |-> keeper.meta], duplicates)
              calls      == (IF action = "merge_metadata"
                             THEN <<[id |-> keeper.id, updates |-> allData]>>
                             ELSE <<>>)
                            \o MarkDuplicates(duplicates, keeper.id)
              run        == UpdateAll(bookmarks, calls)
          IN [bookmarks |-> run.bookmarks,
              made |-> run.made, returned |-> run.ok,
              value |-> IF run.ok
                        THEN [kept |-> keeper.id,
                              removed |-> IdsBut(duplicates, keeper.id),
                              action |-> action]
                        ELSE <<>>,
              error |-> ""]

\* The reset { isDuplicate: false, duplicateOf: null } for every bookmark
\* of the list that is flagged and whose original is not in the store
RECURSIVE CleanupCalls(_, _)
CleanupCalls(allBookmarks, bookmarks) ==
  IF Len(allBookmarks) = 0 THEN <<>>
  ELSE LET bookmark == allBookmarks[1]
       IN (IF bookmark.isDuplicate /\ bookmark.duplicateOf # Null
              /\ ~Exists(bookmarks, bookmark.duplicateOf)
           THEN <<[id |-> bookmark.id,
                   updates |-> [isDuplicate |-> FALSE, duplicateOf |-> Null]]>>
           ELSE <<>>)
          \o CleanupCalls(Tail(allBookmarks), bookmarks)

\* cleanup(): no call removes a bookmark, so the originals that exist are
\* those of the list read at the start
Cleanup(bookmarks) ==
  LET run == UpdateAll(bookmarks, CleanupCalls(bookmarks, bookmarks))
  IN [bookmarks |-> run.bookmarks, made |-> run.made, returned |-> run.ok,
      value |-> <<>>]

\* ------------------------------------------------------------------------
\* BookmarkManagerServiceWorker.handleDuplicates (background/background.js)
\* ------------------------------------------------------------------------

\* storageManager.saveBookmark({ ...bookmark, isDuplicate: true,
\* duplicateOf: keeper.id }) for each bookmark of the group but the keeper.
\* group is an array of bookmarks here.
RECURSIVE SaveMarked(_, _, _)
SaveMarked(bookmarks, group, keeperId) ==
  IF Len(group) = 0 THEN bookmarks
  ELSE LET saved    == SaveMarked(bookmarks, DropLast(group, 1), keeperId)
           bookmark == group[Len(group)]
       IN IF bookmark.id # keeperId
          THEN SaveBookmark(saved, [bookmark EXCEPT !.isDuplicate = TRUE,
                                                    !.duplicateOf = keeperId])
          ELSE saved

\* handleDuplicates(duplicates) on a list of arrays of bookmarks.
\* selectBestBookmark sorts the array with a comparator that is not a
\* consistent ordering (it compares some pairs by visit date, others by
\* title length, others not at all), so which bookmark the sort puts first
\* is left to the implementation: keepers[g] is the place of that bookmark
\* in group g.
RECURSIVE HandleDuplicates(_, _, _)
HandleDuplicates(bookmarks, duplicates, keepers) ==
  IF Len(duplicates) = 0 THEN bookmarks
  ELSE LET handled == HandleDuplicates(bookmarks, DropLast(duplicates, 1), keepers)
           group   == duplicates[Len(duplicates)]
           keeper  == group[keepers[Len(duplicates)]]
       IN SaveMarked(handled, group, keeper.id)

\* ------------------------------------------------------------------------
\* BookmarkManagerServiceWorker: the broken-link check and the orphaned
\* tags (background/background.js)
\* ------------------------------------------------------------------------

\* What a fetch(url, { method: 'HEAD', mode: 'no-cors' }) can meet: a
\* response (opaque under no-cors), a network error (fetch rejects with a
\* TypeError), or the abort after 5 seconds (fetch rejects, AbortError)
FetchOutcomes == {"response", "networkError", "timeout"}

\* checkUrl(url): the promise it returns, as Promise.allSettled reports it.
\* The try/catch around the fetch turns every rejection into the value
\* false, so the promise is always fulfilled.
CheckUrl(fetched) ==
  [status |-> "fulfilled", value |-> fetched = "response"]

\* findBrokenBookmarks(): the stored bookmarks whose settled check has the
\* status 'rejected'. fetches[i] is what the fetch of bookmark i met.
RECURSIVE FindBrokenBookmarks(_, _)
FindBrokenBookmarks(bookmarks, fetches) ==
  IF Len(bookmarks) = 0 THEN <<>>
  ELSE FindBrokenBookmarks(DropLast(bookmarks, 1), DropLast(fetches, 1))
       \o (IF CheckUrl(fetches[Len(fetches)]).status = "rejected"
           THEN <<bookmarks[Len(bookmarks)]>>
           ELSE <<>>)

\* handleBrokenBookmarks(brokenBookmarks): each is saved with isBroken true
RECURSIVE HandleBrokenBookmarks(_, _)
HandleBrokenBookmarks(bookmarks, brokenBookmarks) ==
  IF Len(brokenBookmarks) = 0 THEN bookmarks
  ELSE SaveBookmark(
         HandleBrokenBookmarks(bookmarks, DropLast(brokenBookmarks, 1)),
         [brokenBookmarks[Len(brokenBookmarks)] EXCEPT !.isBroken = TRUE])

\* cleanupOrphanedData(): the tags left once deleteTag has run on every tag
\* that no stored bookmark carries
CleanupOrphanedData(allBookmarks, tags) ==
  { tag \in tags :
      \E i \in DOMAIN allBookmarks :
        \E t \in DOMAIN allBookmarks[i].tags :
          allBookmarks[i].tags[t].id = tag.id }


\* ------------------------------------------------------------------------
\* BookmarkSyncService (background/bookmark-sync.js), and syncBookmarks of
\* the service worker (background/background.js)
\* ------------------------------------------------------------------------

\* A Chrome node is [id, url, title, dateAdded, dateModified]: url is empty
\* for a folder, a date that the node does not have is NoDate. What the
\* sync service stores about a bookmark is [id, url, title, dateAdded,
\* dateModified, analyzed]; the fields that it only ever writes constants
\* to (description, category, isDuplicate, isBroken, ...) are left out.

Untitled == <<"U","n","t","i","t","l","e","d">>

\* a || b for two dates
OrDate(a, b) == IF a # NoDate THEN a ELSE b

\* The ids that Chrome gives to its nodes, in the order of the keys of the
\* object store
NodeIds == <<"c1", "c2", "c3", "c4", "c5">>

KeyRank(id) == CHOOSE i \in DOMAIN NodeIds : NodeIds[i] = id

\* storageManager.saveBookmark(bookmark): store.put({ ...bookmark,
\* dateModified: new Date() }) under the key bookmark.id; getAll() returns
\* the records in the order of their keys
PutBookmark(bookmarks, bookmark, t) ==
  SelectSeq(bookmarks, LAMBDA b : KeyRank(b.id) < KeyRank(bookmark.id))
  \o << [bookmark EXCEPT !.dateModified = t] >>
  \o SelectSeq(bookmarks, LAMBDA b : KeyRank(b.id) > KeyRank(bookmark.id))

\* storageManager.deleteBookmark(id)
DeleteBookmark(bookmarks, id) == SelectSeq(bookmarks, LAMBDA b : b.id # id)

\* BookmarkSyncService.flattenBookmarks: the nodes that have a url
RECURSIVE FlattenBookmarks(_, _)
FlattenBookmarks(nodes, t) ==
  IF Len(nodes) = 0 THEN <<>>
  ELSE FlattenBookmarks(DropLast(nodes, 1), t)
       \o (LET node == nodes[Len(nodes)]
           IN IF Len(node.url) > 0
              THEN << [id |-> node.id, url |-> node.url,
                       title |-> OrElse(node.title, Untitled),
                       dateAdded |-> OrDate(node.dateAdded, t),
                       dateModified |-> OrDate(node.dateModified,
                                               OrDate(node.dateAdded, t))] >>
              ELSE <<>>)

\* importChromeBookmark(chromeBookmark): no bookmark (null) for a folder,
\* the stored record when there is one with the id, a new record otherwise
ImportChromeBookmark(bookmarks, chromeBookmark, t) ==
  IF Len(chromeBookmark.url) = 0 THEN <<>>
  ELSE IF Exists(bookmarks, chromeBookmark.id)
  THEN << bookmarks[PlaceOf(bookmarks, chromeBookmark.id)] >>
  ELSE << [id |-> chromeBookmark.id, url |-> chromeBookmark.url,
           title |-> OrElse(chromeBookmark.title, Untitled),
           dateAdded |-> OrDate(chromeBookmark.dateAdded, t),
           dateModified |-> t, analyzed |-> FALSE] >>

\* analyzeAndStoreBookmark(bookmark): the analysed bookmark is saved
AnalyzeAndStoreBookmark(bookmarks, bookmark, t) ==
  PutBookmark(bookmarks, [bookmark EXCEPT !.analyzed = TRUE], t)

\* handleBookmarkCreated(id, bookmark)
SyncBookmarkCreated(bookmarks, bookmark, t) ==
  LET importedBookmark == ImportChromeBookmark(bookmarks, bookmark, t)
  IN IF Len(importedBookmark) > 0
     THEN AnalyzeAndStoreBookmark(bookmarks, importedBookmark[1], t)
     ELSE bookmarks

\* handleBookmarkRemoved(id, removeInfo)
SyncBookmarkRemoved(bookmarks, id) == DeleteBookmark(bookmarks, id)

\* handleBookmarkChanged(id, changeInfo): chrome.bookmarks.get(id) rejects
\* when Chrome has no node with the id, and the handler catches that
SyncBookmarkChanged(bookmarks, nodes, id, t) ==
  IF \E n \in DOMAIN nodes : nodes[n].id = id
  THEN LET chromeBookmark == nodes[CHOOSE n \in DOMAIN nodes : nodes[n].id = id]
           importedBookmark == ImportChromeBookmark(bookmarks, chromeBookmark, t)
       IN IF Len(importedBookmark) > 0
          THEN PutBookmark(bookmarks, importedBookmark[1], t)
          ELSE bookmarks
  ELSE bookmarks

\* fullSync(), up to its first await: whether the body is entered, and the
\* flag after. The test and the assignment are in one synchronous stretch.
EnterFullSyncAlways(syncing) == [entered |-> TRUE, isSyncing |-> TRUE]

EnterFullSync(syncing) ==
  IF syncing THEN [entered |-> FALSE, isSyncing |-> syncing]
  ELSE [entered |-> TRUE, isSyncing |-> TRUE]

\* fullSync(), one turn of the loop "Import new Chrome bookmarks"
ImportNew(bookmarks, localBookmarks, chromeBookmark, t) ==
  IF ~Exists(localBookmarks, chromeBookmark.id)
  THEN SyncBookmarkCreated(bookmarks, chromeBookmark, t)
  ELSE bookmarks

\* fullSync(), one turn of the loop "Update existing bookmarks"
UpdateExisting(bookmarks, localBookmarks, chromeBookmark, t) ==
  IF Exists(localBookmarks, chromeBookmark.id)
  THEN LET localBookmark  == localBookmarks[PlaceOf(localBookmarks, chromeBookmark.id)]
           chromeModified == OrDate(chromeBookmark.dateModified,
                                    OrDate(chromeBookmark.dateAdded, 0))
           localModified  == localBookmark.dateModified
       IN IF chromeModified > localModified
          THEN PutBookmark(bookmarks,
                           [localBookmark EXCEPT
                              !.title = OrElse(chromeBookmark.title, localBookmark.title),
                              !.url = OrElse(chromeBookmark.url, localBookmark.url)],
                           t)
          ELSE bookmarks
  ELSE bookmarks

\* flattenBookmarks of the service worker
RECURSIVE WorkerFlatten(_, _)
WorkerFlatten(nodes, t) ==
  IF Len(nodes) = 0 THEN <<>>
  ELSE WorkerFlatten(DropLast(nodes, 1), t)
       \o (LET node == nodes[Len(nodes)]
           IN IF Len(node.url) > 0
              THEN << [id |-> node.id, url |-> node.url, title |-> node.title,
                       dateAdded |-> OrDate(node.dateAdded, t)] >>
              ELSE <<>>)

\* syncBookmarks() of the service worker: each Chrome bookmark that has a
\* url and no stored record is given to analyzeBookmark, whose result is
\* dropped; nothing is saved. analyzed is the ids given to analyzeBookmark.
SyncBookmarks(bookmarks, nodes, t) ==
  LET flatBookmarks == WorkerFlatten(nodes, t)
      unknown == SelectSeq(flatBookmarks,
                           LAMBDA c : ~Exists(bookmarks, c.id) /\ Len(c.url) > 0)
  IN [bookmarks |-> bookmarks,
      analyzed |-> [i \in DOMAIN unknown |-> unknown[i].id]]

\* ------------------------------------------------------------------------
\* State
\* ------------------------------------------------------------------------

VARIABLES
  \* normalizeUrl calls: the URL given, its key, the key of the key, and a
  \* second URL (an edit of the first) with its key
  nphase, src, url, key, rekey, vkind, vsrc, variant, key2,
  \* the clock (Date.now()), in days
  now,
  \* scoreBookmarks calls on one bookmark: the bookmark, its score, the
  \* change made to it (or to the clock) since, and its score after
  sphase, rec, score1, edit, score2,
  \* recommendAction calls on one group: the members, the scores and the
  \* keeper found, the change made since (members reordered, or the clock
  \* advanced), and the scores and the keeper found after
  rphase, members, scores1, keep1, redit, scores2, keep2,
  \* what recommendAction returned, the first time and after the change
  advice1, advice2,
  \* the stored bookmarks (what getAllBookmarks returns, in its order), and
  \* the result of the last findAll
  store, fphase, found,
  \* the last operation on the store: its name, the store before it, the
  \* updateBookmark calls it made, whether it returned and what
  op, before, calls, outcome,
  \* the number of operations so far
  steps,
  \* the service worker's cleanup cycle (where it is, what each URL check
  \* met, the bookmarks found broken), and the stored tags
  cycle, allTags,
  \* Chrome's bookmark nodes, the sync service's isSyncing flag, its
  \* fullSync calls (where each is, the Chrome listing and the local
  \* snapshot it holds), and the ids removed in Chrome so far
  chrome, isSyncing, runs, removed,
  \* the construction of the service worker: the constructor calls in
  \* progress, the listeners, alarms and managers made so far
  boot

normVars == <<nphase, src, url, key, rekey, vkind, vsrc, variant, key2>>

scoreVars == <<sphase, rec, score1, edit, score2>>

recVars == <<rphase, members, scores1, keep1, redit, scores2, keep2,
             advice1, advice2>>

\* The service worker's cleanup cycle and the tag store
cycleVars == <<cycle, allTags>>

\* Chrome's bookmarks and the sync service
syncVars == <<chrome, isSyncing, runs, removed>>

workVars == <<cycleVars, syncVars, boot>>

storeVars ==
  <<store, fphase, found, op, before, calls, outcome, steps, workVars>>

vars == <<normVars, now, scoreVars, recVars, storeVars>>

\* ------------------------------------------------------------------------
\* The URLs given to normalizeUrl: scheme, leading "www." labels, host,
\* path, query parameters and fragment, written out as text
\* ------------------------------------------------------------------------

MaxWww    == 2
MaxParams == 2

Schemes == { <<>>, SHttp, SHttps }
ValidHost   == <<"X",".","c","o">>
InvalidHost == <<"a","|","b">>
Paths   == { <<>>, <<"/">>, <<"/","A">>, <<"/","A","/">> }
Hashes  == { <<>>, <<"#","H">> }

ParamCatalog == { << <<"b">>, <<"C">> >>,
                  << <<"a">>, <<"b">> >>,
                  << <<"U","t","m","_","s","o","u","r","c","e">>, <<"x">> >> }

ATrackingParam == << <<"g","c","l","i","d">>, <<"x">> >>

ParamLists == UNION { [1..n -> ParamCatalog] : n \in 0..MaxParams }

\* Every scheme, "www." count, host, path and fragment without a query; and
\* every query on a few of them
UrlParts ==
  [scheme : Schemes, www : 0..MaxWww, host : {ValidHost, InvalidHost},
   path : Paths, params : { <<>> }, hash : Hashes]
  \cup
  [scheme : { <<>>, SHttp }, www : {0}, host : {ValidHost},
   path : { <<>>, <<"/","A">> }, params : ParamLists, hash : Hashes]

\* The URL of the unit test "should handle invalid URLs gracefully"
NotAValidUrl ==
  [scheme |-> <<>>, www |-> 0,
   host |-> <<"n","o","t","-","a","-","v","a","l","i","d","-","u","r","l">>,
   path |-> <<>>, params |-> <<>>, hash |-> <<>>]

RECURSIVE Repeat(_, _)
Repeat(s, n) == IF n = 0 THEN <<>> ELSE s \o Repeat(s, n - 1)

RECURSIVE PairStrings(_)
PairStrings(params) ==
  IF Len(params) = 0 THEN <<>>
  ELSE << params[1][1] \o <<"=">> \o params[1][2] >> \o PairStrings(Tail(params))

Render(p) ==
  (IF Len(p.scheme) > 0 THEN p.scheme \o SSlashes ELSE <<>>)
  \o Repeat(SWww, p.www) \o p.host \o p.path
  \o (IF Len(p.params) > 0
      THEN <<"?">> \o Join(PairStrings(p.params), <<"&">>) ELSE <<>>)
  \o p.hash

NoParts == [scheme |-> <<>>, www |-> 0, host |-> <<>>, path |-> <<>>,
            params |-> <<>>, hash |-> <<>>]

\* A bookmark without any optional field
BlankBookmark ==
  [id |-> "b0", url |-> <<>>, title |-> <<>>, description |-> <<>>,
   tags |-> <<>>, visitCount |-> 0, dateVisited |-> NoDate,
   dateAdded |-> NoDate, category |-> Null, isBroken |-> FALSE,
   meta |-> <<>>, isDuplicate |-> FALSE, duplicateOf |-> Null]

\* No recommendation yet
NoAdvice ==
  [keep |-> Null, action |-> "none", reason |-> "",
   merge |-> [title |-> <<>>, description |-> <<>>, tags |-> <<>>,
              metadata |-> <<>>]]

\* The other specifications' variables, at rest
IdleNorm ==
  /\ nphase = "idle" /\ src = NoParts /\ url = <<>> /\ key = <<>>
  /\ rekey = <<>> /\ vkind = "none" /\ vsrc = NoParts /\ variant = <<>>
  /\ key2 = <<>>

IdleScore ==
  /\ sphase = "idle" /\ rec = BlankBookmark /\ score1 = 0 /\ edit = "none"
  /\ score2 = 0

IdleRec ==
  /\ rphase = "idle" /\ members = <<>> /\ scores1 = <<>> /\ keep1 = Null
  /\ redit = "none" /\ scores2 = <<>> /\ keep2 = Null
  /\ advice1 = NoAdvice /\ advice2 = NoAdvice

\* No cleanup cycle yet, and no tag stored
NoCycle ==
  [phase |-> "idle", checks |-> <<>>, broken |-> <<>>, checked |-> FALSE,
   cleaned |-> FALSE]

IdleCycle ==
  /\ cycle = NoCycle /\ allTags = {}

\* No Chrome bookmark, and no fullSync call
IdleSync ==
  /\ chrome = <<>> /\ isSyncing = FALSE /\ runs = <<>> /\ removed = {}

\* The statements of initializeEventListeners and initializeManagers, in
\* order
Statements ==
  << [kind |-> "listener", name |-> "bookmarks.onCreated"],
     [kind |-> "listener", name |-> "bookmarks.onRemoved"],
     [kind |-> "listener", name |-> "bookmarks.onChanged"],
     [kind |-> "listener", name |-> "runtime.onInstalled"],
     [kind |-> "alarm",    name |-> "cleanup"],
     [kind |-> "alarm",    name |-> "sync"],
     [kind |-> "listener", name |-> "alarms.onAlarm"],
     [kind |-> "manager",  name |-> "StorageManager"],
     [kind |-> "manager",  name |-> "DuplicateDetector"],
     [kind |-> "manager",  name |-> "Categorizer"],
     [kind |-> "manager",  name |-> "TagService"],
     [kind |-> "manager",  name |-> "BookmarkService"],
     [kind |-> "worker",   name |-> "BookmarkManagerServiceWorker"] >>

Made == { Statements[i].name : i \in DOMAIN Statements }

\* The script has not run: nothing is registered or created
NoBoot ==
  [state |-> "idle", stack |-> <<>>, limit |-> 0, count |-> [n \in Made |-> 0]]

IdleWork ==
  /\ IdleCycle /\ IdleSync /\ boot = NoBoot

\* No operation yet
NoOutcome == [returned |-> FALSE, value |-> <<>>, error |-> "", args |-> <<>>]

IdleOps ==
  /\ op = "none" /\ before = <<>> /\ calls = <<>> /\ outcome = NoOutcome
  /\ steps = 0
  /\ IdleWork

IdleStore ==
  /\ store = <<>> /\ fphase = "idle" /\ found = <<>>
  /\ IdleOps

InitNorm ==
  /\ now = 0
  /\ IdleScore
  /\ IdleRec
  /\ IdleStore
  /\ nphase = "input"
  /\ src \in UrlParts \cup {NotAValidUrl}
  /\ url = Render(src)
  /\ key = <<>>
  /\ rekey = <<>>
  /\ vkind = "none"
  /\ vsrc = NoParts
  /\ variant = <<>>
  /\ key2 = <<>>

\* normalizeUrl(url)
Normalize ==
  /\ nphase = "input"
  /\ nphase' = "normalized"
  /\ key' = NormalizeUrl(url)
  /\ UNCHANGED <<src, url, rekey, vkind, vsrc, variant, key2>>
  /\ UNCHANGED <<now, scoreVars, recVars, storeVars>>

\* normalizeUrl(normalizeUrl(url))
Renormalize ==
  /\ nphase = "normalized"
  /\ nphase' = "renormalized"
  /\ rekey' = NormalizeUrl(key)
  /\ UNCHANGED <<src, url, key, vkind, vsrc, variant, key2>>
  /\ UNCHANGED <<now, scoreVars, recVars, storeVars>>

\* normalizeUrl of a second URL, the first one edited into parts p
NormalizeVariant(kind, p) ==
  /\ nphase = "normalized"
  /\ nphase' = "variant"
  /\ vkind' = kind
  /\ vsrc' = p
  /\ variant' = Render(p)
  /\ key2' = NormalizeUrl(Render(p))
  /\ UNCHANGED <<src, url, key, rekey>>
  /\ UNCHANGED <<now, scoreVars, recVars, storeVars>>

RemoveAt(l, i) == SubSeq(l, 1, i - 1) \o SubSeq(l, i + 1, Len(l))
InsertAt(l, i, x) == SubSeq(l, 1, i) \o <<x>> \o SubSeq(l, i + 1, Len(l))
SwapAt(l, i, j) == [l EXCEPT ![i] = l[j], ![j] = l[i]]

\* http <-> https
VariantScheme ==
  /\ src.scheme \in {SHttp, SHttps}
  /\ NormalizeVariant("scheme",
       [src EXCEPT !.scheme = IF src.scheme = SHttp THEN SHttps ELSE SHttp])

\* one more leading "www." on the host
VariantWww ==
  NormalizeVariant("www", [src EXCEPT !.www = src.www + 1])

\* host and path in upper case, or in lower case
VariantCase ==
  \/ NormalizeVariant("case", [src EXCEPT !.host = ToUpperCase(src.host),
                                          !.path = ToUpperCase(src.path)])
  \/ NormalizeVariant("case", [src EXCEPT !.host = ToLowerCase(src.host),
                                          !.path = ToLowerCase(src.path)])

\* one more trailing "/" on a path that is not the root path
VariantSlash ==
  /\ src.path \notin { <<>>, SSlash }
  /\ NormalizeVariant("slash", [src EXCEPT !.path = src.path \o SSlash])

\* a tracking parameter added somewhere in the query
VariantAddTracking ==
  \E i \in 0..Len(src.params) :
    NormalizeVariant("addtracking",
      [src EXCEPT !.params = InsertAt(src.params, i, ATrackingParam)])

\* a tracking parameter removed from the query
VariantDropTracking ==
  \E i \in 1..Len(src.params) :
    /\ IsTracking(src.params[i][1])
    /\ NormalizeVariant("droptracking",
         [src EXCEPT !.params = RemoveAt(src.params, i)])

\* two parameters of the query exchanged
VariantReorder ==
  \E i, j \in 1..Len(src.params) :
    /\ i < j
    /\ NormalizeVariant("reorder",
         [src EXCEPT !.params = SwapAt(src.params, i, j)])

\* a parameter of the query repeated
VariantRepeat ==
  \E i \in 1..Len(src.params) :
    NormalizeVariant("repeat",
      [src EXCEPT !.params = src.params \o <<src.params[i]>>])

NextNorm ==
  \/ Normalize
  \/ Renormalize
  \/ VariantScheme
  \/ VariantWww
  \/ VariantCase
  \/ VariantSlash
  \/ VariantAddTracking
  \/ VariantDropTracking
  \/ VariantReorder
  \/ VariantRepeat

SpecNorm == InitNorm /\ [][NextNorm]_vars

\* ------------------------------------------------------------------------
\* Scoring one bookmark, changing it, and scoring it again
\* ------------------------------------------------------------------------

MaxTags   == 1
MaxVisits == 1

TagCatalog == << [id |-> "t1", name |-> "dev"], [id |-> "t2", name |-> "news"],
                 [id |-> "t3", name |-> "code"], [id |-> "t4", name |-> "docs"] >>

Titles == { <<>>, <<" ">>, Repeat(<<"t">>, 12), Repeat(<<"T">>, 60) }

Descriptions == { <<>>, Repeat(<<"d">>, 30), Repeat(<<"D">>, 100) }

NewDescriptions == { <<" ", " ">>, Repeat(<<"d">>, 30) }

StartTimes == { 600 }

\* A visit 600 days before the start (its term has decayed to 0) or 15
\* days before it; an addition 60 days before it
VisitDates == { NoDate, 0, 585 }
AddDates   == { NoDate, 540 }

TickDays == { 30, 900 }

ScoreUrls == { SHttp \o SSlashes \o <<"x",".","c","o">>,
               SHttps \o SSlashes \o <<"x",".","c","o">> }

Metas == { <<>>, [domain |-> <<"x",".","c","o">>] }

ScoreRecords ==
  { [BlankBookmark EXCEPT !.url = u, !.title = t, !.description = d,
       !.tags = SubSeq(TagCatalog, 1, n), !.visitCount = v,
       !.dateVisited = dv, !.dateAdded = da, !.category = c,
       !.isBroken = br, !.meta = m] :
      u \in ScoreUrls, t \in Titles, d \in Descriptions, n \in 0..MaxTags,
      v \in 0..MaxVisits, dv \in VisitDates, da \in AddDates,
      c \in {Null, "cat-dev"}, br \in BOOLEAN, m \in Metas }

InitScore ==
  /\ IdleNorm
  /\ IdleRec
  /\ IdleStore
  /\ now \in StartTimes
  /\ sphase = "fresh"
  /\ rec \in ScoreRecords
  /\ score1 = 0
  /\ edit = "none"
  /\ score2 = 0

\* scoreBookmarks([rec]), the first time
ScoreFirst ==
  /\ sphase = "fresh"
  /\ sphase' = "scored"
  /\ score1' = ScoreBookmarks(<<rec>>, now)[1].score
  /\ UNCHANGED <<rec, edit, score2, now, normVars, recVars, storeVars>>

\* scoreBookmarks([rec]), after the change
ScoreAgain ==
  /\ sphase = "edited"
  /\ sphase' = "rescored"
  /\ score2' = ScoreBookmarks(<<rec>>, now)[1].score
  /\ UNCHANGED <<rec, edit, score1, now, normVars, recVars, storeVars>>

EditRec(kind, r) ==
  /\ sphase = "scored"
  /\ sphase' = "edited"
  /\ edit' = kind
  /\ rec' = r
  /\ UNCHANGED <<score1, score2, now, normVars, recVars, storeVars>>

\* isBroken set on a bookmark that was not broken
EditBroken ==
  /\ ~rec.isBroken
  /\ EditRec("broken", [rec EXCEPT !.isBroken = TRUE])

\* one more tag
EditTag ==
  /\ Len(rec.tags) < Len(TagCatalog)
  /\ EditRec("tag", [rec EXCEPT !.tags = rec.tags \o <<TagCatalog[Len(rec.tags) + 1]>>])

\* a non-empty description where there was none
EditDescription ==
  /\ rec.description = <<>>
  /\ \E d \in NewDescriptions : EditRec("description", [rec EXCEPT !.description = d])

\* one more visit counted
EditVisit ==
  EditRec("visit", [rec EXCEPT !.visitCount = rec.visitCount + 1])

\* time passes, the bookmark is unchanged
EditClock ==
  /\ sphase = "scored"
  /\ sphase' = "edited"
  /\ edit' = "clock"
  /\ \E d \in TickDays : now' = now + d
  /\ UNCHANGED <<rec, score1, score2, normVars, recVars, storeVars>>

NextScore ==
  \/ ScoreFirst
  \/ ScoreAgain
  \/ EditBroken
  \/ EditTag
  \/ EditDescription
  \/ EditVisit
  \/ EditClock

SpecScore == InitScore /\ [][NextScore]_vars

\* ------------------------------------------------------------------------
\* Recommending a keeper for a group, reordering the group or letting time
\* pass, and recommending again
\* ------------------------------------------------------------------------

MaxMembers == 3

MemberIds == <<"b1", "b2", "b3", "b4", "b5", "b6", "b7">>

GoodTitle == Repeat(<<"t">>, 12)

\* Bookmarks of different quality: nothing filled in; a title; a title but
\* broken; visited 15 days before the start; a title and two tags
Profiles ==
  { BlankBookmark,
    [BlankBookmark EXCEPT !.title = GoodTitle],
    [BlankBookmark EXCEPT !.title = GoodTitle, !.isBroken = TRUE],
    [BlankBookmark EXCEPT !.dateVisited = 585],
    [BlankBookmark EXCEPT !.title = GoodTitle, !.tags = SubSeq(TagCatalog, 1, 2)] }

\* The groups: 1..MaxMembers bookmarks with the ids b1, b2, ... in order
Groups ==
  UNION { { [i \in 1..n |-> [f[i] EXCEPT !.id = MemberIds[i]]] :
              f \in [1..n -> Profiles] } : n \in 1..MaxMembers }

Orders(n) ==
  { f \in [1..n -> 1..n] : \A i, j \in 1..n : i # j => f[i] # f[j] }

InitRec ==
  /\ IdleNorm
  /\ IdleScore
  /\ IdleStore
  /\ now \in StartTimes
  /\ rphase = "fresh"
  /\ members \in Groups
  /\ scores1 = <<>>
  /\ keep1 = Null
  /\ redit = "none"
  /\ scores2 = <<>>
  /\ keep2 = Null
  /\ advice1 = NoAdvice
  /\ advice2 = NoAdvice

ScoresOf(bookmarks, t) ==
  [i \in 1..Len(bookmarks) |-> ScoreBookmarks(bookmarks, t)[i].score]

\* recommendAction(members), the first time
Recommend ==
  /\ rphase = "fresh"
  /\ rphase' = "recommended"
  /\ scores1' = ScoresOf(members, now)
  /\ advice1' = RecommendAction(members, now)
  /\ keep1' = advice1'.keep
  /\ UNCHANGED <<members, redit, scores2, keep2, advice2, now, normVars, scoreVars, storeVars>>

\* The same members handed over in another order
Reorder ==
  /\ rphase = "recommended"
  /\ \E f \in Orders(Len(members)) :
       /\ \E i \in DOMAIN members : f[i] # i
       /\ members' = [i \in DOMAIN members |-> members[f[i]]]
  /\ rphase' = "changed"
  /\ redit' = "order"
  /\ UNCHANGED <<scores1, keep1, scores2, keep2, advice1, advice2, now,
                 normVars, scoreVars, storeVars>>

\* Time passes, the members are unchanged
ClockAdvance ==
  /\ rphase = "recommended"
  /\ \E d \in TickDays : now' = now + d
  /\ rphase' = "changed"
  /\ redit' = "clock"
  /\ UNCHANGED <<members, scores1, keep1, scores2, keep2, advice1, advice2,
                 normVars, scoreVars, storeVars>>

\* recommendAction(members), after the change
RecommendAgain ==
  /\ rphase = "changed"
  /\ rphase' = "again"
  /\ scores2' = ScoresOf(members, now)
  /\ advice2' = RecommendAction(members, now)
  /\ keep2' = advice2'.keep
  /\ UNCHANGED <<members, redit, scores1, keep1, advice1, now, normVars, scoreVars, storeVars>>

NextRec ==
  \/ Recommend
  \/ Reorder
  \/ ClockAdvance
  \/ RecommendAgain

SpecRec == InitRec /\ [][NextRec]_vars

\* ------------------------------------------------------------------------
\* The same calls on groups whose bookmarks carry titles, descriptions,
\* tags, metas, visit counts and visit dates to merge
\* ------------------------------------------------------------------------

OtherTitle == Repeat(<<"u">>, 12)
LongTitle  == Repeat(<<"L">>, 25)

\* A tag with the id of TagCatalog[2] under another name
RenamedTag == [id |-> "t2", name |-> "press"]

\* Bookmarks to merge: nothing filled in; a title, two tags, a meta and a
\* visit count; another title as long, a description, a recent visit and a
\* meta with the same key; a title of 25 characters, an older visit, a
\* category; a blank title and a blank description with tags and a meta
\* that holds the lastVisited of an earlier merge (autoResolve writes the
\* merged metadata into the meta of the keeper); a description and a tag
\* without a title; a title, a description and a tag
RichProfiles ==
  { BlankBookmark,
    [BlankBookmark EXCEPT !.title = GoodTitle, !.tags = SubSeq(TagCatalog, 1, 2),
                          !.meta = [domain |-> "x.co"], !.visitCount = 1],
    [BlankBookmark EXCEPT !.title = OtherTitle, !.description = Repeat(<<"d">>, 30),
                          !.dateVisited = 585,
                          !.meta = [domain |-> "y.co", lang |-> "en"]],
    [BlankBookmark EXCEPT !.title = LongTitle, !.dateVisited = 500,
                          !.visitCount = 2, !.category = "cat-dev"],
    [BlankBookmark EXCEPT !.title = <<" ">>, !.description = <<" ", " ">>,
                          !.tags = <<RenamedTag, TagCatalog[3]>>,
                          !.meta = [totalVisits |-> 7, lastVisited |-> 100]],
    [BlankBookmark EXCEPT !.description = Repeat(<<"e">>, 5),
                          !.tags = SubSeq(TagCatalog, 1, 1)],
    [BlankBookmark EXCEPT !.title = GoodTitle, !.description = Repeat(<<"d">>, 30),
                          !.tags = SubSeq(TagCatalog, 3, 3)] }

RichGroups ==
  UNION { { [i \in 1..n |-> [f[i] EXCEPT !.id = MemberIds[i]]] :
              f \in [1..n -> RichProfiles] } : n \in 1..MaxMembers }

InitMerge ==
  /\ IdleNorm
  /\ IdleScore
  /\ IdleStore
  /\ now \in StartTimes
  /\ rphase = "fresh"
  /\ members \in RichGroups
  /\ scores1 = <<>>
  /\ keep1 = Null
  /\ redit = "none"
  /\ scores2 = <<>>
  /\ keep2 = Null
  /\ advice1 = NoAdvice
  /\ advice2 = NoAdvice

SpecMerge == InitMerge /\ [][NextRec]_vars

\* ------------------------------------------------------------------------
\* The store and findAll
\* ------------------------------------------------------------------------

MaxBookmarks == 3

\* "https://www.X.co/A/", "http://x.co/a", "x.co/a" (no scheme, so it does
\* not parse), "https://x.co/b", "https://x.co/a?gclid=x" and no url
StoreUrls ==
  { SHttps \o SSlashes \o SWww \o <<"X",".","c","o","/","A","/">>,
    SHttp \o SSlashes \o <<"x",".","c","o","/","a">>,
    <<"x",".","c","o","/","a">>,
    SHttps \o SSlashes \o <<"x",".","c","o","/","b">>,
    SHttps \o SSlashes \o <<"x",".","c","o","/","a","?","g","c","l","i","d","=","x">>,
    <<>> }

\* What is stored about a bookmark here: its url and its title
StoreEntries ==
  { <<u, t>> : u \in StoreUrls, t \in { <<>> } } \cup
  { <<u, GoodTitle>> : u \in { SHttp \o SSlashes \o <<"x",".","c","o","/","a">>, <<>> } }

\* Larger stores hold up to MaxCrowd bookmarks of two URLs with one key
MaxCrowd == 5

CrowdEntries ==
  { <<u, <<>> >> : u \in { SHttps \o SSlashes \o SWww \o <<"X",".","c","o","/","A","/">>,
                          SHttp \o SSlashes \o <<"x",".","c","o","/","a">> } }

StoreOf(f, n) ==
  [i \in 1..n |-> [BlankBookmark EXCEPT !.id = MemberIds[i],
                                        !.url = f[i][1],
                                        !.title = f[i][2]]]

\* The stores: up to MaxBookmarks bookmarks with the ids b1, b2, ... in
\* order, and the larger ones
Stores ==
  UNION { { StoreOf(f, n) : f \in [1..n -> StoreEntries] } : n \in 0..MaxBookmarks }
  \cup
  UNION { { StoreOf(f, n) : f \in [1..n -> CrowdEntries] } :
            n \in (MaxBookmarks + 1)..MaxCrowd }

Init ==
  /\ IdleNorm
  /\ IdleScore
  /\ IdleRec
  /\ now \in StartTimes
  /\ store \in Stores
  /\ fphase = "fresh"
  /\ found = <<>>
  /\ IdleOps

\* findAll(): getAllBookmarks, groupDuplicates, and for each group its
\* count, recommended action and severity
FindAll ==
  /\ fphase = "fresh"
  /\ fphase' = "found"
  /\ found' = FindAllOf(store, now)
  /\ UNCHANGED <<store, op, before, calls, outcome, steps, workVars>>
  /\ UNCHANGED <<now, normVars, scoreVars, recVars>>

Next ==
  \/ FindAll

Spec == Init /\ [][Next]_vars

\* ------------------------------------------------------------------------
\* Resolving duplicates in the store: autoResolve, resolveManually, cleanup
\* and the service worker's handleDuplicates, one after the other
\* ------------------------------------------------------------------------

MaxOps == 1

\* The id of a bookmark that was removed from the store
RemovedId == "b0"

\* "http://x.co/a" with a title
PlainEntry ==
  [BlankBookmark EXCEPT !.url = SHttp \o SSlashes \o <<"x",".","c","o","/","a">>,
                        !.title = GoodTitle]

\* What is stored about a bookmark here: "http://x.co/a" with a title;
\* "https://www.X.co/A/" with a long title, a description and a tag;
\* "http://x.co/a" with an empty title (handleBookmarkCreated and
\* handleBookmarkChanged of the service worker save the title that the
\* browser gives, without validating it); "https://x.co/b" with a title
ResolveEntries ==
  { PlainEntry,
    [BlankBookmark EXCEPT !.url = SHttps \o SSlashes \o SWww \o <<"X",".","c","o","/","A","/">>,
                          !.title = LongTitle,
                          !.description = Repeat(<<"d">>, 30),
                          !.tags = SubSeq(TagCatalog, 1, 1)],
    [BlankBookmark EXCEPT !.url = SHttp \o SSlashes \o <<"x",".","c","o","/","a">>],
    [BlankBookmark EXCEPT !.url = SHttps \o SSlashes \o <<"x",".","c","o","/","b">>,
                          !.title = GoodTitle] }

\* The bookmarks that come first in the store differ; those after them are
\* copies of the plain one
Varied(n) == IF n < 2 THEN n ELSE 2

\* The stores at the start, with no bookmark flagged: up to MaxBookmarks
\* bookmarks with the ids b1, b2, ... in order
UnflaggedStores ==
  UNION { { [i \in 1..n |-> [(IF i <= Varied(n) THEN f[i] ELSE PlainEntry)
                               EXCEPT !.id = MemberIds[i]]] :
              f \in [1..Varied(n) -> ResolveEntries] } : n \in 0..MaxBookmarks }

\* A store in which bookmark i was flagged as a duplicate of x before
\* (by addBookmark, or by an earlier resolution)
Flagged(bookmarks, i, x) ==
  [bookmarks EXCEPT ![i] = [@ EXCEPT !.isDuplicate = TRUE, !.duplicateOf = x]]

\* Two bookmarks of "http://x.co/a.b" and two of "http://x.co/a/b"
TwoGroupStore ==
  [i \in 1..4 |->
     [PlainEntry EXCEPT !.id = MemberIds[i],
                        !.url = PlainEntry.url \o (IF i <= 2 THEN <<".","b">>
                                                             ELSE <<"/","b">>)]]

\* The stores at the start: no bookmark flagged, or one, as a duplicate of
\* another bookmark of the store or of a bookmark that was removed since;
\* and the store with two groups
ResolveStores ==
  {TwoGroupStore} \cup UnflaggedStores \cup
  UNION { { Flagged(st, ix[1], ix[2]) :
              ix \in { jy \in (DOMAIN st) \X ({ st[j].id : j \in DOMAIN st } \cup {RemovedId}) :
                         jy[2] # st[jy[1]].id } } :
          st \in UnflaggedStores }

InitResolve ==
  /\ IdleNorm
  /\ IdleScore
  /\ IdleRec
  /\ now \in StartTimes
  /\ store \in ResolveStores
  /\ fphase = "resolving"
  /\ found = <<>>
  /\ IdleOps

\* One more operation, with the groups that its findAll() returned, what it
\* did to the store and what it returned
Operation(name, args, duplicateGroups, r) ==
  /\ steps < MaxOps
  /\ steps' = steps + 1
  /\ op' = name
  /\ before' = store
  /\ found' = duplicateGroups
  /\ store' = r.bookmarks
  /\ calls' = r.made
  /\ outcome' = [returned |-> r.returned, value |-> r.value,
                 error |-> IF "error" \in DOMAIN r THEN r.error ELSE "",
                 args |-> args]
  /\ UNCHANGED <<fphase, now, normVars, scoreVars, recVars, workVars>>

\* autoResolve with either value of options.mergeMetadata
AutoResolveOn(duplicateGroups) ==
  \E mergeMetadata \in BOOLEAN :
    Operation("autoResolve", <<mergeMetadata>>, duplicateGroups,
              AutoResolve(store, duplicateGroups, mergeMetadata))

\* autoResolve(options)
RunAutoResolve == AutoResolveOn(FindAllOf(store, now))

\* A group id that no group has
NoGroupId == GroupId(<<"n","o">>)

\* resolveManually with the id of a group or of none, the id of a bookmark
\* of the store, and either action
ResolveManuallyOn(duplicateGroups) ==
  \E groupId \in { duplicateGroups[g].id : g \in DOMAIN duplicateGroups } \cup {NoGroupId},
     keepBookmarkId \in { store[i].id : i \in DOMAIN store },
     action \in {"merge_metadata", "keep_first"} :
    Operation("resolveManually", <<groupId, keepBookmarkId, action>>,
              duplicateGroups,
              ResolveManually(store, duplicateGroups, groupId, keepBookmarkId, action))

\* resolveManually(groupId, keepBookmarkId, action)
RunResolveManually == ResolveManuallyOn(FindAllOf(store, now))

\* cleanup(); it does not call findAll()
RunCleanup == Operation("cleanup", <<>>, found, Cleanup(store))

\* The arrays of bookmarks of the groups
MembersOf(duplicateGroups) ==
  [g \in DOMAIN duplicateGroups |-> duplicateGroups[g].bookmarks]

\* handleDuplicates with any bookmark of each array as the one that
\* selectBestBookmark puts first
HandleDuplicatesOn(duplicateGroups) ==
  \E keepers \in [DOMAIN duplicateGroups -> 1..Len(store)] :
    /\ \A g \in DOMAIN duplicateGroups : keepers[g] <= duplicateGroups[g].count
    /\ Operation("handleDuplicates", <<>>, duplicateGroups,
                 [bookmarks |-> HandleDuplicates(store, MembersOf(duplicateGroups), keepers),
                  made |-> <<>>, returned |-> TRUE, value |-> <<>>])

\* handleDuplicates(duplicates) on arrays of bookmarks that share a URL
RunHandleDuplicates == HandleDuplicatesOn(FindAllOf(store, now))

\* The duplicates step of performCleanup on what findAll returned
PerformCleanupOn(duplicateGroups) ==
  Operation("performCleanup", <<>>, duplicateGroups,
            [bookmarks |-> store, made |-> <<>>,
             returned |-> Len(duplicateGroups) = 0, value |-> <<>>])

\* performCleanup(): the groups that findAll returns are objects, not
\* arrays, so with one group or more handleDuplicates throws a TypeError in
\* selectBestBookmark (bookmarks.sort is not a function), which
\* performCleanup catches; nothing is saved
RunPerformCleanup == PerformCleanupOn(FindAllOf(store, now))

NextResolve ==
  \/ RunAutoResolve
  \/ RunResolveManually
  \/ RunCleanup
  \/ RunHandleDuplicates
  \/ RunPerformCleanup

SpecResolve == InitResolve /\ [][NextResolve]_vars

\* ------------------------------------------------------------------------
\* The cleanup cycle of the service worker: performCleanup(), one step for
\* each of its awaited calls
\* ------------------------------------------------------------------------

\* What is stored about a bookmark here: "http://x.co/a" with a title;
\* "https://www.X.co/A/" (the same key) with a tag; "https://x.co/b" with
\* another tag; "http://x.co/c"
CleanupEntries ==
  { PlainEntry,
    [BlankBookmark EXCEPT !.url = SHttps \o SSlashes \o SWww \o <<"X",".","c","o","/","A","/">>,
                          !.title = LongTitle,
                          !.tags = SubSeq(TagCatalog, 1, 1)],
    [BlankBookmark EXCEPT !.url = SHttps \o SSlashes \o <<"x",".","c","o","/","b">>,
                          !.title = GoodTitle,
                          !.tags = SubSeq(TagCatalog, 2, 2)],
    [BlankBookmark EXCEPT !.url = SHttp \o SSlashes \o <<"x",".","c","o","/","c">>,
                          !.title = GoodTitle] }

\* The stores at the start of a cycle: up to MaxBookmarks bookmarks with
\* the ids b1, b2, ... in order, none flagged, none broken
CleanupStores ==
  UNION { { [i \in 1..n |-> [f[i] EXCEPT !.id = MemberIds[i]]] :
              f \in [1..n -> CleanupEntries] } : n \in 0..MaxBookmarks }

\* The tag stores at the start: empty, or the first two tags of the catalog
TagStores == { {}, { TagCatalog[1], TagCatalog[2] } }

InitCleanup ==
  /\ IdleNorm
  /\ IdleScore
  /\ IdleRec
  /\ now \in StartTimes
  /\ store \in CleanupStores
  /\ fphase = "cleaning"
  /\ found = <<>>
  /\ op = "none" /\ before = <<>> /\ calls = <<>> /\ outcome = NoOutcome
  /\ steps = 0
  /\ cycle = NoCycle
  /\ allTags \in TagStores
  /\ IdleSync
  /\ boot = NoBoot

\* One step of the cycle: the store, the tags and the cycle change, the
\* rest does not
CycleStep(phase, nextCycle, nextStore, nextTags) ==
  /\ fphase = "cleaning"
  /\ cycle.phase = phase
  /\ cycle' = nextCycle
  /\ store' = nextStore
  /\ allTags' = nextTags
  /\ UNCHANGED <<fphase, op, calls, outcome, steps>>
  /\ UNCHANGED <<now, normVars, scoreVars, recVars, syncVars, boot>>

\* const duplicates = await this.duplicateDetector.findAll()
FindDuplicates ==
  /\ CycleStep("idle", [cycle EXCEPT !.phase = "duplicates"], store, allTags)
  /\ found' = FindAllOf(store, now)
  /\ before' = store

\* if (duplicates.length > 0) await this.handleDuplicates(duplicates): each
\* group is an object, so selectBestBookmark(group) throws a TypeError
\* (bookmarks.sort is not a function) on the first group, before any save,
\* and the catch of performCleanup ends the cycle
HandleFound ==
  /\ CycleStep("duplicates",
               [cycle EXCEPT !.phase = IF Len(found) > 0 THEN "caught"
                                       ELSE "links"],
               store, allTags)
  /\ UNCHANGED <<found, before>>

\* The broken-link step once findBrokenBookmarks has returned
BrokenStep(brokenBookmarks, fetches) ==
  /\ CycleStep("links",
               [cycle EXCEPT !.phase = "orphans", !.checks = fetches,
                             !.broken = brokenBookmarks, !.checked = TRUE],
               IF Len(brokenBookmarks) > 0
               THEN HandleBrokenBookmarks(store, brokenBookmarks)
               ELSE store,
               allTags)
  /\ UNCHANGED <<found, before>>

\* The broken-link step on the fetches given
CheckLinksOn(fetches) ==
  BrokenStep(FindBrokenBookmarks(store, fetches), fetches)

\* const brokenBookmarks = await this.findBrokenBookmarks();
\* if (brokenBookmarks.length > 0) await this.handleBrokenBookmarks(...),
\* whatever each fetch meets
CheckLinks ==
  \E fetches \in [DOMAIN store -> FetchOutcomes] : CheckLinksOn(fetches)

\* await this.cleanupOrphanedData(), and the cycle is completed
CleanOrphans ==
  /\ CycleStep("orphans", [cycle EXCEPT !.phase = "done", !.cleaned = TRUE],
               store, CleanupOrphanedData(store, allTags))
  /\ UNCHANGED <<found, before>>

NextCleanup ==
  \/ FindDuplicates
  \/ HandleFound
  \/ CheckLinks
  \/ CleanOrphans

SpecCleanup == InitCleanup /\ [][NextCleanup]_vars

\* ------------------------------------------------------------------------
\* Chrome's bookmarks, the handlers of the sync service, its fullSync calls
\* (one step for each awaited call), and syncBookmarks of the service
\* worker
\* ------------------------------------------------------------------------

MaxNodes  == 2
MaxSyncs  == 2
MaxEvents == 1

\* When the Chrome nodes were added, and when the stored records were last
\* saved, in days; the clock is at a StartTimes value
AddedTimes == { 300, 500 }
SavedTimes == { 400 }

UrlA == SHttp \o SSlashes \o <<"x",".","c","o","/","a">>
UrlB == SHttps \o SSlashes \o <<"x",".","c","o","/","b">>

\* The Chrome nodes: a bookmark with a title, a bookmark without, a folder
NodeKinds ==
  { [id |-> Null, url |-> UrlA, title |-> GoodTitle, dateAdded |-> 500,
     dateModified |-> NoDate],
    [id |-> Null, url |-> UrlB, title |-> <<>>, dateAdded |-> 300,
     dateModified |-> NoDate],
    [id |-> Null, url |-> <<>>, title |-> GoodTitle, dateAdded |-> 300,
     dateModified |-> NoDate] }

\* Chrome's nodes at the start: up to MaxNodes, with the ids c1, c2, ...
ChromeTrees ==
  UNION { { [i \in 1..n |-> [f[i] EXCEPT !.id = NodeIds[i]]] :
              f \in [1..n -> NodeKinds] } : n \in 0..MaxNodes }

\* The record stored earlier for a Chrome bookmark: its title then was
\* another one
StoredFor(node, t) ==
  [id |-> node.id, url |-> node.url, title |-> LongTitle,
   dateAdded |-> node.dateAdded, dateModified |-> t, analyzed |-> TRUE]

\* The stores at the start: a record for some of Chrome's bookmarks
SyncStores(nodes) ==
  { LET chosen == SelectSeq(FlattenBookmarks(nodes, 0), LAMBDA c : c.id \in ids)
    IN [i \in DOMAIN chosen |-> StoredFor(chosen[i], t)] :
      ids \in SUBSET { nodes[n].id : n \in DOMAIN nodes }, t \in SavedTimes }

\* No fullSync call holds a listing or a snapshot before it reads them
NoRun ==
  [pc |-> "skipped", allChromeBookmarks |-> <<>>, localBookmarks |-> <<>>,
   i |-> 0, threw |-> FALSE]

InitSync ==
  /\ IdleNorm
  /\ IdleScore
  /\ IdleRec
  /\ now \in StartTimes
  /\ chrome \in ChromeTrees
  /\ store \in SyncStores(chrome)
  /\ fphase = "syncing"
  /\ found = <<>>
  /\ op = "none" /\ before = <<>> /\ calls = <<>> /\ outcome = NoOutcome
  /\ steps = 0
  /\ IdleCycle
  /\ isSyncing = FALSE /\ runs = <<>> /\ removed = {}
  /\ boot = NoBoot

\* A handler has run, or a step of one: its name, the store it found, the
\* store after, what it returned
Handled(name, found0, nextStore, result) ==
  /\ fphase = "syncing"
  /\ op' = name
  /\ before' = found0
  /\ store' = nextStore
  /\ outcome' = result
  /\ UNCHANGED <<fphase, found, calls, now, normVars, scoreVars, recVars,
                 cycleVars, boot>>

\* A Chrome event, and the handler of the sync service for it
Event(name, nextChrome, nextStore, value) ==
  /\ steps < MaxEvents
  /\ steps' = steps + 1
  /\ chrome' = nextChrome
  /\ Handled(name, store, nextStore,
             [NoOutcome EXCEPT !.returned = TRUE, !.value = value])
  /\ UNCHANGED <<isSyncing, runs>>

\* The ids that Chrome has given so far
Issued == Len(chrome) + Cardinality(removed)

\* The user adds a node in Chrome: onCreated, handleBookmarkCreated
ChromeCreated ==
  /\ Issued < MaxNodes + 1
  /\ \E kind \in NodeKinds :
       LET node == [kind EXCEPT !.id = NodeIds[Issued + 1]]
       IN Event("handleBookmarkCreated", Append(chrome, node),
                SyncBookmarkCreated(store, node, now), node.id)
  /\ UNCHANGED removed

\* The user removes a node in Chrome: onRemoved, handleBookmarkRemoved.
\* removed keeps the id, and whether a record was deleted while a fullSync
\* was in progress.
ChromeRemoved ==
  \E n \in DOMAIN chrome :
    /\ Event("handleBookmarkRemoved",
             SelectSeq(chrome, LAMBDA c : c.id # chrome[n].id),
             SyncBookmarkRemoved(store, chrome[n].id), chrome[n].id)
    /\ removed' = removed \cup
                  { <<chrome[n].id, isSyncing /\ Exists(store, chrome[n].id)>> }

\* The changes that the user makes to a bookmark in Chrome
NewTitle == <<"n","e","w">>

Changed(node) ==
  { [node EXCEPT !.title = NewTitle], [node EXCEPT !.url = node.url \o <<"2">>] }

\* The user edits a bookmark in Chrome: onChanged, handleBookmarkChanged
ChromeChanged ==
  /\ \E n \in DOMAIN chrome :
       /\ Len(chrome[n].url) > 0
       /\ \E node \in Changed(chrome[n]) :
            LET nodes == [chrome EXCEPT ![n] = node]
            IN Event("handleBookmarkChanged", nodes,
                     SyncBookmarkChanged(store, nodes, node.id, now), node.id)
  /\ UNCHANGED removed

\* The 'sync' alarm of the service worker: syncBookmarks()
WorkerSync ==
  /\ steps < MaxEvents
  /\ steps' = steps + 1
  /\ LET run == SyncBookmarks(store, chrome, now)
     IN Handled("syncBookmarks", store, run.bookmarks,
                [NoOutcome EXCEPT !.returned = TRUE, !.value = run.analyzed])
  /\ UNCHANGED syncVars

\* A step of fullSync call r
SyncStep(r, nextRun, nextStore, syncing) ==
  /\ runs' = [runs EXCEPT ![r] = nextRun]
  /\ isSyncing' = syncing
  /\ Handled("fullSync", <<>>, nextStore, NoOutcome)
  /\ UNCHANGED <<steps, chrome, removed>>

\* fullSync() is called (by scheduleSync, by the interval or by forceSync)
\* and runs to its first await, or returns at once
FullSyncCalled(entry) ==
  /\ Len(runs) < MaxSyncs
  /\ runs' = Append(runs, [NoRun EXCEPT !.pc = IF entry.entered THEN "listing"
                                              ELSE "skipped"])
  /\ isSyncing' = entry.isSyncing
  /\ Handled("fullSync", <<>>, store, NoOutcome)
  /\ UNCHANGED <<steps, chrome, removed>>

CallFullSync == FullSyncCalled(EnterFullSync(isSyncing))

\* const chromeBookmarks = await chrome.bookmarks.getTree(), flattened
GetTree ==
  \E r \in DOMAIN runs :
    /\ runs[r].pc = "listing"
    /\ SyncStep(r, [runs[r] EXCEPT !.pc = "reading",
                                   !.allChromeBookmarks = FlattenBookmarks(chrome, now)],
                store, isSyncing)

\* const localBookmarks = await this.storageManager.getAllBookmarks()
ReadLocal ==
  \E r \in DOMAIN runs :
    /\ runs[r].pc = "reading"
    /\ SyncStep(r, [runs[r] EXCEPT !.pc = IF Len(runs[r].allChromeBookmarks) > 0
                                          THEN "importing" ELSE "finishing",
                                   !.localBookmarks = store,
                                   !.i = 1],
                store, isSyncing)

\* One turn of the import loop
ImportNext ==
  \E r \in DOMAIN runs :
    /\ runs[r].pc = "importing"
    /\ SyncStep(r, [runs[r] EXCEPT
                      !.pc = IF runs[r].i < Len(runs[r].allChromeBookmarks)
                             THEN "importing" ELSE "updating",
                      !.i = IF runs[r].i < Len(runs[r].allChromeBookmarks)
                            THEN runs[r].i + 1 ELSE 1],
                ImportNew(store, runs[r].localBookmarks,
                          runs[r].allChromeBookmarks[runs[r].i], now),
                isSyncing)

\* One turn of the update loop
UpdateNext ==
  \E r \in DOMAIN runs :
    /\ runs[r].pc = "updating"
    /\ SyncStep(r, [runs[r] EXCEPT
                      !.pc = IF runs[r].i < Len(runs[r].allChromeBookmarks)
                             THEN "updating" ELSE "finishing",
                      !.i = IF runs[r].i < Len(runs[r].allChromeBookmarks)
                            THEN runs[r].i + 1 ELSE 0],
                UpdateExisting(store, runs[r].localBookmarks,
                               runs[r].allChromeBookmarks[runs[r].i], now),
                isSyncing)

\* The loops are over: lastSyncTime, notifyPopup, and the finally block
FinishSync ==
  \E r \in DOMAIN runs :
    /\ runs[r].pc = "finishing"
    /\ SyncStep(r, [runs[r] EXCEPT !.pc = "ended"], store, FALSE)

\* An awaited call of the body rejects (Chrome or IndexedDB fails): the
\* catch block logs, the finally block runs
ThrowInSync ==
  \E r \in DOMAIN runs :
    /\ runs[r].pc \in {"listing", "reading", "importing", "updating"}
    /\ SyncStep(r, [runs[r] EXCEPT !.pc = "ended", !.threw = TRUE],
                store, FALSE)

NextSync ==
  \/ ChromeCreated
  \/ ChromeRemoved
  \/ ChromeChanged
  \/ WorkerSync
  \/ CallFullSync
  \/ GetTree
  \/ ReadLocal
  \/ ImportNext
  \/ UpdateNext
  \/ FinishSync
  \/ ThrowInSync

SpecSync == InitSync /\ [][NextSync]_vars

\* The fullSync calls alone, with Chrome at rest
NextFullSync ==
  \/ CallFullSync
  \/ GetTree
  \/ ReadLocal
  \/ ImportNext
  \/ UpdateNext
  \/ FinishSync
  \/ ThrowInSync

SpecFullSync == InitSync /\ [][NextFullSync]_vars

\* ------------------------------------------------------------------------
\* The construction of the service worker: "new
\* BookmarkManagerServiceWorker()" at the end of background.js, one step
\* for each statement of initializeEventListeners and initializeManagers
\* ------------------------------------------------------------------------

\* The call stack of the engine holds between 1 and MaxStack constructor
\* calls
MaxStack == 4

InitBoot ==
  /\ IdleNorm
  /\ IdleScore
  /\ IdleRec
  /\ now \in StartTimes
  /\ store = <<>>
  /\ fphase = "booting"
  /\ found = <<>>
  /\ op = "none" /\ before = <<>> /\ calls = <<>> /\ outcome = NoOutcome
  /\ steps = 0
  /\ IdleCycle
  /\ IdleSync
  /\ \E limit \in 1..MaxStack : boot = [NoBoot EXCEPT !.limit = limit]

BootStep(nextBoot) ==
  /\ fphase = "booting"
  /\ boot' = nextBoot
  /\ UNCHANGED <<now, normVars, scoreVars, recVars, store, fphase, found, op,
                 before, calls, outcome, steps, cycleVars, syncVars>>

\* The statement that the innermost constructor call is at
Current == Statements[boot.stack[Len(boot.stack)]]

\* "new BookmarkManagerServiceWorker()" is about to be evaluated: by the
\* script, or by initializeManagers of the innermost call
AtNew ==
  \/ boot.state = "idle"
  \/ boot.state = "running" /\ Current.kind = "worker"

\* The innermost call goes on to its next statement, having made one more
\* of what the statement makes
Advance(made) ==
  BootStep([boot EXCEPT !.stack[Len(boot.stack)] = @ + 1,
                        !.count[made] = @ + 1])

\* chrome.<event>.addListener(this.<handler>.bind(this)): one more listener
AddListener ==
  /\ boot.state = "running"
  /\ Current.kind = "listener"
  /\ Advance(Current.name)

\* chrome.alarms.create(name, ...)
CreateAlarm ==
  /\ boot.state = "running"
  /\ Current.kind = "alarm"
  /\ Advance(Current.name)

\* this.<manager> = new <Manager>()
CreateManager ==
  /\ boot.state = "running"
  /\ Current.kind = "manager"
  /\ Advance(Current.name)

\* new BookmarkManagerServiceWorker(): the constructor is entered
Construct ==
  /\ AtNew
  /\ Len(boot.stack) < boot.limit
  /\ BootStep([boot EXCEPT !.state = "running",
                           !.stack = Append(@, 1),
                           !.count["BookmarkManagerServiceWorker"] = @ + 1])

\* new BookmarkManagerServiceWorker() with the call stack full: RangeError
\* (Maximum call stack size exceeded), which no constructor call catches
Overflow ==
  /\ AtNew
  /\ Len(boot.stack) = boot.limit
  /\ BootStep([boot EXCEPT !.state = "thrown", !.stack = <<>>])

\* No step returns from the constructor: it returns after
\* initializeManagers, whose last statement is the nested construction
NextBoot ==
  \/ AddListener
  \/ CreateAlarm
  \/ CreateManager
  \/ Construct
  \/ Overflow

SpecBoot == InitBoot /\ [][NextBoot]_vars

\* ========================================================================
\* Properties of normalizeUrl (checked under SpecNorm)
\* ========================================================================

Parseable(u) == ParseUrl(u).ok

\* The query parameters that normalizeUrl is to keep: those whose
\* lower-cased name is not in the tracking blocklist
RECURSIVE Retained(_)
Retained(params) ==
  IF Len(params) = 0 THEN <<>>
  ELSE (IF \E i \in DOMAIN TrackingParams :
              TrackingParams[i] = ToLowerCase(params[1][1])
        THEN <<>> ELSE <<params[1]>>)
       \o Retained(Tail(params))

RetainedSet(params) == { Retained(params)[i] : i \in DOMAIN Retained(params) }

Occurrences(x, l) == Cardinality({ i \in DOMAIN l : l[i] = x })

SameBag(l, m) ==
  \A x \in { l[i] : i \in DOMAIN l } \cup { m[i] : i \in DOMAIN m } :
    Occurrences(x, l) = Occurrences(x, m)

SameButParams(p, q) == [p EXCEPT !.params = <<>>] = [q EXCEPT !.params = <<>>]

\* C2: normalizeUrl is idempotent: normalizeUrl(normalizeUrl(u)) equals
\* normalizeUrl(u) for every string u.
C2_Idempotent ==
  nphase = "renormalized" => rekey = key

\* C3 as stated: two parseable URLs that differ only in scheme, in a leading
\* "www." on the host, in the letter case of host or path, or in one
\* trailing "/" on a non-root path have the same key.
C3_SameKeyAsStated ==
  (nphase = "variant" /\ vkind \in {"scheme", "www", "case", "slash"}
     /\ Parseable(url) /\ Parseable(variant))
  => key2 = key

\* C3 as amended: two parseable URLs have the same key when they differ only
\* in scheme, in the letter case of host or path, in a leading "www." added
\* to a host that does not itself begin with "www.", or in one trailing "/"
\* added to a non-root path that does not already end in "/".
C3_SameKey ==
  (nphase = "variant" /\ Parseable(url) /\ Parseable(variant))
  => /\ vkind \in {"scheme", "case"} => key2 = key
     /\ (vkind = "www" /\ ~StartsWith(ParseUrl(url).hostname, SWww))
          => key2 = key
     /\ (vkind = "slash" /\ ~EndsWith(ParseUrl(url).pathname, SSlash))
          => key2 = key

C3_Witness ==
  /\ nphase = "variant"
  /\ vkind = "www"
  /\ Parseable(url) /\ Parseable(variant)
  /\ src.www = 0
  /\ EndsWith(src.path, <<"A","/">>)
  /\ src.scheme = SHttps
  /\ key2 = key

\* C4 as stated: the key depends on the query string only through the set of
\* key=value pairs whose lower-cased key is not a tracking parameter, and no
\* "?" is appended when no parameter remains.
C4_QuerySetAsStated ==
  /\ (nphase = "variant" /\ Parseable(url) /\ SameButParams(src, vsrc)
        /\ RetainedSet(src.params) = RetainedSet(vsrc.params))
     => key2 = key
  /\ (nphase # "input" /\ Parseable(url) /\ Retained(src.params) = <<>>)
     => \A i \in DOMAIN key : key[i] # "?"

\* C4 as amended: for a URL that parses, the key depends on the query string
\* only through the multiset of key=value pairs whose lower-cased key is not
\* a tracking parameter (adding or removing tracking parameters, or
\* reordering the parameters, does not change the key; repeating a pair
\* does), and no "?" is appended when no parameter remains.
C4_QueryBag ==
  /\ (nphase = "variant" /\ Parseable(url) /\ SameButParams(src, vsrc)
        /\ SameBag(Retained(src.params), Retained(vsrc.params)))
     => key2 = key
  /\ (nphase # "input" /\ Parseable(url) /\ Retained(src.params) = <<>>)
     => \A i \in DOMAIN key : key[i] # "?"

C4_Witness ==
  /\ nphase = "variant"
  /\ vkind = "reorder"
  /\ Parseable(url)
  /\ Len(Retained(src.params)) = 1
  /\ src.params # vsrc.params
  /\ key2 = key
  /\ \E i \in DOMAIN key : key[i] = "?"

\* C5: normalizeUrl is total on strings: it returns a string and never
\* raises; when the input does not parse as a URL the result is the
\* lower-cased input with a leading "http://" or "https://", then a leading
\* "www.", then one trailing "/" removed ("not-a-valid-url" is unchanged).
C5_TotalWithFallback ==
  nphase # "input" =>
    /\ key # Thrown
    /\ \A i \in DOMAIN key : key[i] \in AllChars
    /\ ~Parseable(url) =>
         LET l == ToLowerCase(url)
             a == IF StartsWith(l, <<"h","t","t","p",":","/","/">>)
                    THEN SubSeq(l, 8, Len(l))
                  ELSE IF StartsWith(l, <<"h","t","t","p","s",":","/","/">>)
                    THEN SubSeq(l, 9, Len(l))
                  ELSE l
             b == IF StartsWith(a, <<"w","w","w",".">>)
                    THEN SubSeq(a, 5, Len(a)) ELSE a
             c == IF Len(b) > 0 /\ b[Len(b)] = "/"
                    THEN SubSeq(b, 1, Len(b) - 1) ELSE b
         IN key = c
    /\ src = NotAValidUrl => key = url

C5_Witness ==
  /\ nphase = "normalized"
  /\ ~Parseable(url)
  /\ src.scheme = SHttps
  /\ src.www = 2
  /\ src.path = <<"/","A","/">>
  /\ key = <<"w","w","w",".","a","|","b","/","a">>

\* ========================================================================
\* Properties of scoreBookmarks (checked under SpecScore)
\* ========================================================================

\* C8 as stated: setting isBroken=true, all else and the time unchanged,
\* strictly lowers the score by exactly 50.
C8_BrokenMinus50AsStated ==
  (sphase = "rescored" /\ edit = "broken")
  => (score2 < score1 /\ score2 = score1 - 50 * 60)

\* C8 as amended: setting isBroken=true, all else and the time unchanged,
\* changes the score s to max(0, s - 50): it is lowered by exactly 50 when
\* s >= 50, lowered to 0 when 0 < s < 50, and stays 0 when s = 0.
C8_BrokenClamped ==
  (sphase = "rescored" /\ edit = "broken")
  => /\ score1 >= 50 * 60 => score2 = score1 - 50 * 60
     /\ score1 < 50 * 60 => score2 = 0
     /\ score2 <= score1

C8_Witness ==
  /\ sphase = "rescored" /\ edit = "broken"
  /\ score1 > 50 * 60
  /\ score2 = score1 - 50 * 60
  /\ score2 > 0

\* C9: adding one more tag, giving a non-empty description where there was
\* none, or counting one more visit, all else and the time unchanged, never
\* lowers the score (for broken bookmarks too).
C9_Monotone ==
  (sphase = "rescored" /\ edit \in {"tag", "description", "visit"})
  => score2 >= score1

C9_Witness ==
  /\ sphase = "rescored" /\ edit = "tag"
  /\ rec.isBroken
  /\ score1 > 0
  /\ score2 = score1 + 3 * 60

\* ========================================================================
\* Properties of recommendAction (checked under SpecRec)
\* ========================================================================

TopScore(scores) == CHOOSE m \in { scores[i] : i \in DOMAIN scores } :
                      \A i \in DOMAIN scores : scores[i] <= m

TopCount(scores) == Cardinality({ i \in DOMAIN scores : scores[i] = TopScore(scores) })

HasDates(b) == b.dateVisited # NoDate \/ b.dateAdded # NoDate

\* C6: for every non-empty member list, keep is the id of a member whose
\* score is the maximum over the list, and of the first such member in the
\* input order when several tie.
C6_KeepIsFirstBest ==
  rphase = "recommended" =>
    \E k \in DOMAIN members :
      /\ members[k].id = keep1
      /\ scores1[k] = TopScore(scores1)
      /\ \A j \in 1..(k - 1) : scores1[j] < scores1[k]

C6_Witness ==
  /\ rphase = "recommended"
  /\ Len(members) = 3
  /\ TopCount(scores1) = 2
  /\ scores1[1] < scores1[2]
  /\ scores1[2] = scores1[3]
  /\ keep1 = members[2].id

\* C7 as stated: for every permutation of the members, at the same time,
\* the keep id is the same, also when two or more members tie at the top.
C7_OrderIndependentAsStated ==
  (rphase = "again" /\ redit = "order") => keep2 = keep1

\* C7 as amended: for every permutation of the members, at the same time,
\* the keep id is the same provided exactly one member has the top score;
\* when two or more tie at the top, keep is the tied member that comes first
\* in the order given, so it can change with the order.
C7_OrderIndependentUniqueTop ==
  (rphase = "again" /\ redit = "order") =>
    /\ TopCount(scores1) = 1 => keep2 = keep1
    /\ \E k \in DOMAIN members :
         /\ members[k].id = keep2
         /\ scores2[k] = TopScore(scores2)
         /\ \A j \in 1..(k - 1) : scores2[j] < scores2[k]

C7_Witness ==
  /\ rphase = "again" /\ redit = "order"
  /\ Len(members) = 3
  /\ TopCount(scores1) = 1
  /\ keep2 = keep1
  /\ members[3].id = keep2
  /\ scores2[1] = scores2[2]

\* C10 as stated: scoring the same unchanged record at any two moments
\* returns the same number, and the keep id of an unchanged group does not
\* change between calls.
C10_TimeIndependentAsStated ==
  (rphase = "again" /\ redit = "clock") =>
    (scores2 = scores1 /\ keep2 = keep1)

\* C10 as amended: the score is a function of the record and of the time of
\* the call: at two moments an unchanged record without dateVisited and
\* dateAdded scores the same, a record with one of them never scores higher
\* at the later moment, and the keep id of an unchanged group is the same
\* at both moments when no member has a dateVisited or dateAdded.
C10_TimeDependentOnDates ==
  (rphase = "again" /\ redit = "clock") =>
    /\ \A i \in DOMAIN members :
         /\ ~HasDates(members[i]) => scores2[i] = scores1[i]
         /\ scores2[i] <= scores1[i]
    /\ (\A i \in DOMAIN members : ~HasDates(members[i])) => keep2 = keep1

C10_Witness ==
  /\ rphase = "again" /\ redit = "clock"
  /\ Len(members) = 2
  /\ ~HasDates(members[1]) /\ ~HasDates(members[2])
  /\ scores1[1] < scores1[2]
  /\ scores2 = scores1
  /\ keep2 = keep1
  /\ keep2 = members[2].id

\* ========================================================================
\* Properties of the recommendation (checked under SpecMerge)
\* ========================================================================

\* The member with the given id
MemberOf(x) == members[CHOOSE k \in DOMAIN members : members[k].id = x]

SomeComplete ==
  \E i \in DOMAIN members :
    members[i].title # <<>> /\ members[i].description # <<>> /\ members[i].tags # <<>>

SomeLongTitle == \E i \in DOMAIN members : Len(members[i].title) >= 21

SomeVisited == \E i \in DOMAIN members : members[i].dateVisited # NoDate

\* C11: the action is merge_metadata if some member has a non-empty title,
\* a non-empty description and at least one tag; otherwise
\* keep_most_descriptive if some member's title is longer than 20
\* characters; otherwise keep_most_recent if some member has a dateVisited;
\* otherwise keep_first.  It does not depend on which member is the keeper
\* or on the order of the members.
C11_ActionPolicy ==
  /\ rphase = "recommended" =>
       /\ (advice1.action = "merge_metadata") = SomeComplete
       /\ (advice1.action = "keep_most_descriptive") =
            (~SomeComplete /\ SomeLongTitle)
       /\ (advice1.action = "keep_most_recent") =
            (~SomeComplete /\ ~SomeLongTitle /\ SomeVisited)
       /\ (advice1.action = "keep_first") =
            (~SomeComplete /\ ~SomeLongTitle /\ ~SomeVisited)
  /\ (rphase = "again" /\ redit = "order") => advice2.action = advice1.action

\* The action rests on a member that is neither the keeper nor the first
\* member, and the members were then given in another order
C11_Witness ==
  /\ rphase = "again" /\ redit = "order"
  /\ advice2.action = "keep_most_descriptive"
  /\ Len(MemberOf(advice2.keep).title) <= 20
  /\ Len(members[1].title) <= 20
  /\ keep2 = keep1

\* C12: the reason is assembled from the fields of the member whose id is
\* returned as keep, for every group, also when that member is not the
\* first member of the list.
C12_ReasonOfKeeper ==
  rphase = "recommended" =>
    advice1.reason = ReasonsOf(MemberOf(advice1.keep), now)

\* The tags of all members in the order of the members and, in a member,
\* of its tags
AllTags == TagsInOrder(members)

FirstSeen(id) == CHOOSE p \in DOMAIN AllTags :
                   /\ AllTags[p].id = id
                   /\ \A q \in 1..(p - 1) : AllTags[q].id # id

\* C13: the merged tags have exactly one entry per tag id that occurs in
\* any member; the entry is the first-seen tag with that id, and the
\* entries are in first-seen order.
C13_MergeTagsFirstSeen ==
  rphase = "recommended" =>
    LET tags == advice1.merge.tags
    IN /\ \A p, q \in DOMAIN tags : p # q => tags[p].id # tags[q].id
       /\ \A p \in DOMAIN tags :
            \E i \in DOMAIN members : \E j \in DOMAIN members[i].tags :
              tags[p] = members[i].tags[j]
       /\ \A i \in DOMAIN members : \A j \in DOMAIN members[i].tags :
            \E p \in DOMAIN tags : tags[p].id = members[i].tags[j].id
       /\ \A p \in DOMAIN tags : tags[p] = AllTags[FirstSeen(tags[p].id)]
       /\ \A p, q \in DOMAIN tags :
            p < q => FirstSeen(tags[p].id) < FirstSeen(tags[q].id)

\* An id occurs under two names and the first name is the one kept
C13_Witness ==
  /\ rphase = "recommended"
  /\ Len(members) = 3
  /\ members[1].tags = <<TagCatalog[1], TagCatalog[2]>>
  /\ members[2].tags = <<RenamedTag, TagCatalog[3]>>
  /\ members[3].tags = <<TagCatalog[1]>>
  /\ advice1.merge.tags = <<TagCatalog[1], TagCatalog[2], TagCatalog[3]>>

Titled == { i \in DOMAIN members : members[i].title # <<>> /\ NonBlank(members[i].title) }

\* C14: the merged title is the longest title among the members whose title
\* is non-empty after trimming, of the earliest such member when several
\* have the maximum length, and the empty string when there is none.
C14_MergeTitlesLongest ==
  rphase = "recommended" =>
    LET title == advice1.merge.title
    IN IF Titled = {} THEN title = <<>>
       ELSE \E i \in Titled :
              /\ title = members[i].title
              /\ \A j \in Titled : Len(members[j].title) <= Len(title)
              /\ \A j \in Titled : j < i => Len(members[j].title) < Len(title)

\* Two titles of the maximum length, after a member with a blank title
C14_Witness ==
  /\ rphase = "recommended"
  /\ Len(members) = 3
  /\ members[1].title = <<" ">>
  /\ members[2].title = OtherTitle
  /\ members[3].title = GoodTitle
  /\ advice1.merge.title = OtherTitle

RECURSIVE VisitsUpTo(_)
VisitsUpTo(n) == IF n = 0 THEN 0 ELSE members[n].visitCount + VisitsUpTo(n - 1)

MetaKeys == UNION { DOMAIN members[i].meta : i \in DOMAIN members }

\* The value of key k in the meta of the last member that has it
LastMeta(k) ==
  members[CHOOSE i \in DOMAIN members :
            /\ k \in DOMAIN members[i].meta
            /\ \A j \in DOMAIN members : j > i => k \notin DOMAIN members[j].meta
         ].meta[k]

LatestVisit ==
  CHOOSE d \in { members[i].dateVisited : i \in DOMAIN members } :
    \A i \in DOMAIN members : members[i].dateVisited <= d

\* What C15 says of every key but lastVisited
MergedButLastVisited(merged) ==
  /\ DOMAIN merged \ {"lastVisited"} = (MetaKeys \cup {"totalVisits"}) \ {"lastVisited"}
  /\ \A k \in MetaKeys \ {"totalVisits", "lastVisited"} : merged[k] = LastMeta(k)
  /\ merged.totalVisits = VisitsUpTo(Len(members))

\* C15 as stated: the merged metadata is the left-to-right merge of the
\* metas plus totalVisits, the sum of the visit counts, and lastVisited, the
\* most recent dateVisited; when no member has a dateVisited the result has
\* no lastVisited key.
C15_MergedMetadataAsStated ==
  rphase = "recommended" =>
    LET merged == advice1.merge.metadata
    IN /\ MergedButLastVisited(merged)
       /\ IF SomeVisited
          THEN "lastVisited" \in DOMAIN merged /\ merged.lastVisited = LatestVisit
          ELSE "lastVisited" \notin DOMAIN merged

\* C15 as amended: as stated, but when no member has a dateVisited no
\* lastVisited is derived: the result has a lastVisited key exactly when the
\* meta of some member has one, with the value of the last such member.
C15_MergedMetadata ==
  rphase = "recommended" =>
    LET merged == advice1.merge.metadata
    IN /\ MergedButLastVisited(merged)
       /\ IF SomeVisited
          THEN "lastVisited" \in DOMAIN merged /\ merged.lastVisited = LatestVisit
          ELSE IF "lastVisited" \in MetaKeys
          THEN "lastVisited" \in DOMAIN merged
               /\ merged.lastVisited = LastMeta("lastVisited")
          ELSE "lastVisited" \notin DOMAIN merged

\* Two metas with the key domain, visit counts to add up and two dates of
\* visit, the later on the earlier member
C15_Witness ==
  /\ rphase = "recommended"
  /\ Len(members) = 3
  /\ members[1].meta = [domain |-> "y.co", lang |-> "en"]
  /\ members[2].meta = [domain |-> "x.co"]
  /\ members[1].dateVisited = 585
  /\ members[3].dateVisited = 500
  /\ advice1.merge.metadata =
       [domain |-> "x.co", lang |-> "en", totalVisits |-> 3, lastVisited |-> 585]

\* ========================================================================
\* Properties of groupDuplicates / findAll (checked under Spec)
\* ========================================================================

\* The number of places record id x takes in the groups of a findAll result
PlacesOf(x, groups) ==
  Cardinality({ gp \in { <<g, p>> : g \in DOMAIN groups, p \in 1..Len(store) } :
                  /\ gp[2] \in DOMAIN groups[gp[1]].bookmarks
                  /\ groups[gp[1]].bookmarks[gp[2]].id = x })

SharesUrl(i) ==
  /\ Len(store[i].url) > 0
  /\ \E j \in DOMAIN store :
       /\ j # i
       /\ Len(store[j].url) > 0
       /\ NormalizeUrl(store[j].url) = NormalizeUrl(store[i].url)

\* The place in the store of member p of group g
PlaceInStore(g, p) ==
  CHOOSE i \in DOMAIN store : store[i] = found[g].bookmarks[p]

\* C16: every group returned by findAll has at least 2 members, a count
\* equal to its number of members, its members in the order of the input,
\* and severity "critical" when count >= 5, "high" when count is 3 or 4,
\* "medium" when count = 2; a list in which no normalized URL repeats
\* yields an empty result.
C16_GroupShape ==
  fphase = "found" =>
    /\ \A g \in DOMAIN found :
         /\ Len(found[g].bookmarks) >= 2
         /\ found[g].count = Len(found[g].bookmarks)
         /\ \A p \in DOMAIN found[g].bookmarks :
              \E i \in DOMAIN store : store[i] = found[g].bookmarks[p]
         /\ \A p, q \in DOMAIN found[g].bookmarks :
              p < q => PlaceInStore(g, p) < PlaceInStore(g, q)
         /\ found[g].count >= 5 => found[g].severity = "critical"
         /\ found[g].count \in {3, 4} => found[g].severity = "high"
         /\ found[g].count = 2 => found[g].severity = "medium"
    /\ (\A i \in DOMAIN store : ~SharesUrl(i)) => found = <<>>

C16_Witness ==
  /\ fphase = "found"
  /\ Len(found) = 1
  /\ found[1].count = 5
  /\ found[1].severity = "critical"
  /\ found[1].bookmarks = store
  /\ store[1].url # store[2].url

\* C1: every record that has a url whose normalized form is shared by at
\* least two records is in exactly one returned group, the group of that
\* normalized URL; a record whose normalized URL is unique, or that has no
\* url, is in no group.
C1_GroupingComplete ==
  fphase = "found" =>
    \A i \in DOMAIN store :
      IF SharesUrl(i)
      THEN /\ PlacesOf(store[i].id, found) = 1
           /\ \E g \in DOMAIN found :
                /\ found[g].url = NormalizeUrl(store[i].url)
                /\ \E p \in DOMAIN found[g].bookmarks :
                     found[g].bookmarks[p] = store[i]
      ELSE PlacesOf(store[i].id, found) = 0

C1_Witness ==
  /\ fphase = "found"
  /\ Len(store) = 3
  /\ Len(found) = 1
  /\ found[1].count = 2
  /\ store[1].url # store[3].url
  /\ Parseable(store[1].url) /\ Parseable(store[3].url)
  /\ found[1].bookmarks = <<store[1], store[3]>>
  /\ Len(store[2].url) > 0

\* ========================================================================
\* Properties of the resolution of duplicates (checked under SpecResolve)
\* ========================================================================

Ids(bookmarks) == { bookmarks[i].id : i \in DOMAIN bookmarks }

\* The updates flag a bookmark as a duplicate
IsMark(updates) ==
  /\ "isDuplicate" \in DOMAIN updates
  /\ updates.isDuplicate

\* The updates take the flag of a bookmark away
IsReset(updates) ==
  /\ "isDuplicate" \in DOMAIN updates
  /\ ~updates.isDuplicate
  /\ updates.duplicateOf = Null

\* The bookmark was updated, by a call of the last operation that did not
\* throw, to a duplicate of the keeper
MarkedAs(id, keeperId) ==
  \E c \in DOMAIN calls :
    /\ calls[c].id = id
    /\ calls[c].ok
    /\ IsMark(calls[c].updates)
    /\ calls[c].updates.duplicateOf = keeperId

\* A call of the last operation asked to flag the bookmark
AskedToMark(id) ==
  \E c \in DOMAIN calls : calls[c].id = id /\ IsMark(calls[c].updates)

\* The bookmark is flagged as a duplicate of a bookmark that is not in the
\* list
Orphaned(bookmarks, bookmark) ==
  /\ bookmark.isDuplicate
  /\ ~Exists(bookmarks, bookmark.duplicateOf)

\* C17 as stated: autoResolve returns exactly one result per duplicate group
\* reported by findAll; in each result kept is the group's recommended keep
\* id and removed is exactly the ids of all other members; every removed
\* member has been updated with isDuplicate=true and duplicateOf=kept, and
\* the kept member is never updated with isDuplicate=true.
C17_AutoResolveContract ==
  op = "autoResolve" =>
    /\ outcome.returned
    /\ Len(outcome.value) = Len(found)
    /\ \A g \in DOMAIN found :
         LET result == outcome.value[g]
         IN /\ result.group = found[g].id
            /\ result.kept = found[g].recommendedAction.keep
            /\ { result.removed[i] : i \in DOMAIN result.removed }
                 = Ids(found[g].bookmarks) \ { result.kept }
            /\ \A i \in DOMAIN result.removed :
                 MarkedAs(result.removed[i], result.kept)
            /\ ~AskedToMark(result.kept)

\* C18 as stated: cleanup resets isDuplicate to false and duplicateOf to
\* null for exactly those records that are flagged isDuplicate and whose
\* duplicateOf names a record that no longer exists; every other record
\* receives no update; after the cleanup no flagged record has a duplicateOf
\* naming a missing record.
C18_CleanupResetsOrphans ==
  op = "cleanup" =>
    /\ \A i \in DOMAIN before :
         IF Orphaned(before, before[i])
         THEN \E c \in DOMAIN calls :
                /\ calls[c].id = before[i].id
                /\ calls[c].ok
                /\ IsReset(calls[c].updates)
         ELSE \A c \in DOMAIN calls : calls[c].id # before[i].id
    /\ \A i \in DOMAIN store : ~Orphaned(store, store[i])

C20_KeeperNotDuplicate ==
  (op \in {"autoResolve", "resolveManually"} /\ outcome.returned) =>
    \A c \in DOMAIN calls :
      (calls[c].ok /\ IsMark(calls[c].updates)) =>
        LET k == PlaceOf(store, calls[c].updates.duplicateOf)
        IN k > 0 /\ ~store[k].isDuplicate

\* C27 as stated: when recommendAction returns keep_first, keep is the id
\* of the first member in input order; when it returns keep_most_recent,
\* keep is the id of a member with the latest dateVisited; when it returns
\* keep_most_descriptive, keep is the id of a member with the longest
\* title.  (Checked under SpecRec.)
C27_ActionAgreesWithKeeper ==
  rphase = "recommended" =>
    /\ advice1.action = "keep_first" => advice1.keep = members[1].id
    /\ advice1.action = "keep_most_recent" =>
         \A i \in DOMAIN members :
           members[i].dateVisited <= MemberOf(advice1.keep).dateVisited
    /\ advice1.action = "keep_most_descriptive" =>
         \A i \in DOMAIN members :
           Len(members[i].title) <= Len(MemberOf(advice1.keep).title)

\* ========================================================================
\* Properties of the service worker's cleanup cycle (checked under
\* SpecCleanup)
\* ========================================================================

\* The stored bookmark with the id
Stored(id) == store[PlaceOf(store, id)]

\* C21 as stated: after a performCleanup cycle of the service worker, every
\* stored bookmark whose URL check failed (fetch error, or abort after the
\* 5 s timeout) has been saved with isBroken=true, and no bookmark whose
\* check succeeded has been so marked.
C21_BrokenLinksFlagged ==
  cycle.phase = "done" =>
    \A i \in DOMAIN before :
      Stored(before[i].id).isBroken <=> cycle.checks[i] # "response"

\* C23 as stated: in a performCleanup cycle in which findAll reports at
\* least one duplicate group, every member of each group other than the
\* selected keeper is saved with isDuplicate=true and duplicateOf equal to
\* the keeper's id, and the cycle then continues with the broken-link check
\* and the orphaned-tag cleanup.
C23_CleanupResolvesDuplicates ==
  (cycle.phase \in {"done", "caught"} /\ Len(found) > 0) =>
    /\ \A g \in DOMAIN found :
         \E keeper \in Ids(found[g].bookmarks) :
           \A id \in Ids(found[g].bookmarks) \ {keeper} :
             /\ Stored(id).isDuplicate
             /\ Stored(id).duplicateOf = keeper
    /\ cycle.checked
    /\ cycle.cleaned

\* ========================================================================
\* Properties of the synchronisation with Chrome (checked under SpecSync,
\* and under SpecFullSync for the fullSync calls alone)
\* ========================================================================

\* Chrome's node with the id
NodeOf(id) == chrome[CHOOSE n \in DOMAIN chrome : chrome[n].id = id]

\* C22 as stated: after the service worker's syncBookmarks (the 'sync'
\* alarm) completes without error, every Chrome bookmark node that has a
\* url and had no stored record before the run has a stored record with its
\* id.
C22_SyncImportsChrome ==
  (op = "syncBookmarks" /\ outcome.returned) =>
    \A n \in DOMAIN chrome :
      (Len(chrome[n].url) > 0 /\ ~Exists(before, chrome[n].id))
        => Exists(store, chrome[n].id)

\* C24 as stated: after BookmarkSyncService.handleBookmarkChanged completes
\* for a bookmark that already has a stored record, the stored record's
\* title and url equal the Chrome bookmark's current title and url.
C24_ChangeReachesStore ==
  (op = "handleBookmarkChanged" /\ Exists(before, outcome.value)) =>
    /\ Exists(store, outcome.value)
    /\ Stored(outcome.value).title = NodeOf(outcome.value).title
    /\ Stored(outcome.value).url = NodeOf(outcome.value).url

\* Call r of fullSync is between "this.isSyncing = true" and the end of
\* its finally block
InBody(r) ==
  runs[r].pc \in {"listing", "reading", "importing", "updating", "finishing"}

Running == { r \in DOMAIN runs : InBody(r) }

\* A call of fullSync is made in this step
Called == Len(runs') = Len(runs) + 1

\* C25: at most one fullSync body runs at a time; a fullSync or forceSync
\* call made while another fullSync is in progress returns without reading
\* or writing the store; isSyncing is false again once the running fullSync
\* ends, whether it succeeded or raised an error, so a call made after it
\* ended enters the body.
C25_OneFullSyncAtATime ==
  /\ [](/\ Cardinality(Running) <= 1
        /\ isSyncing <=> Running # {}
        /\ \A r \in DOMAIN runs : runs[r].pc = "skipped" => runs[r] = NoRun)
  /\ [][Called =>
          IF Running # {}
          THEN /\ runs'[Len(runs')] = NoRun
               /\ store' = store
               /\ isSyncing' = isSyncing
          ELSE runs'[Len(runs')].pc = "listing"]_vars

\* A call was skipped while another was running, which then threw, and the
\* flag is down
C25_Witness ==
  /\ Len(runs) = 2
  /\ runs[2].pc = "skipped"
  /\ runs[1].pc = "ended"
  /\ runs[1].threw
  /\ store # <<>>
  /\ ~isSyncing

\* C26 as stated: if handleBookmarkRemoved deletes a record while a
\* fullSync is in progress, that record is absent from the store when the
\* fullSync finishes (fullSync neither imports it from its earlier Chrome
\* listing nor re-saves it from its earlier snapshot of local records).
C26_RemovalNotUndone ==
  Running = {} =>
    \A x \in removed : x[2] => ~Exists(store, x[1])

\* ========================================================================
\* Properties of the group ids and of resolveManually (checked under
\* SpecResolve)
\* ========================================================================

\* The groups, among those that the operation's findAll() returned, that
\* have the id
GroupsWithId(groupId) == { g \in DOMAIN found : found[g].id = groupId }

\* C28 as stated: any two distinct groups returned by one findAll call (two
\* different normalized URLs) have different ids, so resolveManually(groupId,
\* ...) always acts on the group of the one normalized URL the id was
\* derived from.
C28_GroupIdsUnique ==
  op # "none" =>
    /\ \A g, h \in DOMAIN found : g # h => found[g].id # found[h].id
    /\ op = "resolveManually" =>
         \A g \in GroupsWithId(outcome.args[1]) :
           outcome.args[2] \in Ids(found[g].bookmarks)
             => outcome.error # KeepNotFound

C29_SuccessReached ==
  /\ op = "resolveManually"
  /\ outcome.returned
  /\ Len(before) = 3
  /\ Cardinality({ id \in Ids(before) : MarkedAs(id, outcome.args[2]) }) = 2

C30_ConstructorTerminates ==
  /\ boot.state # "thrown"
  /\ \A n \in Made : boot.count[n] <= 1
  /\ boot.state = "returned" => \A n \in Made : boot.count[n] = 1

====
